---- MODULE Spec2Model ----
(***************************************************************************)
(* Model of the safe-destructive-operation core of mac-cleaner-cli:        *)
(* the path-safety predicates and removeItem (utils/fs.ts) and the backup  *)
(* manager (utils/backup.ts).  Paths are strings, as in the code, and the  *)
(* string functions of node:path are modelled character by character.      *)
(***************************************************************************)
EXTENDS Integers, Sequences, FiniteSets, TLC

(***************************************************************************)
(* Strings                                                                 *)
(***************************************************************************)

\* String.prototype.startsWith
StartsWith(s, p) == Len(s) >= Len(p) /\ SubSeq(s, 1, Len(p)) = p

\* the one element of a one-element set: Only({e(x) : x \in {v}}) is e(v),
\* with v computed once however often e uses x
Only(S) == CHOOSE x \in S : TRUE

\* index of the first occurrence of pat in s at or after i, 0 when there is
\* none (String.prototype.indexOf, 1-based)
RECURSIVE IndexFrom(_, _, _)
IndexFrom(s, pat, i) ==
    IF i + Len(pat) - 1 > Len(s) THEN 0
    ELSE IF SubSeq(s, i, i + Len(pat) - 1) = pat THEN i
    ELSE Only({IndexFrom(s, pat, j) : j \in {i + 1}})

IndexOf(s, pat) == Only({IndexFrom(str, pat, 1) : str \in {s}})

\* String.prototype.includes
Includes(s, pat) == IndexOf(s, pat) # 0

\* String.prototype.replace with a string pattern: the first occurrence only
ReplaceFirst(s, pat, rep) ==
    Only({IF i = 0 THEN s
          ELSE SubSeq(s, 1, i - 1) \o rep \o SubSeq(s, i + Len(pat), Len(s))
          : i \in {IndexOf(s, pat)}})

\* String.prototype.slice(n) (n is 0-based)
Slice(s, n) == SubSeq(s, n + 1, Len(s))

\* the segments of str from position k on
RECURSIVE SplitFrom(_, _)
SplitFrom(str, k) ==
    Only({IF i = 0 THEN <<SubSeq(str, k, Len(str))>>
          ELSE <<SubSeq(str, k, i - 1)>> \o SplitFrom(str, i + 1)
          : i \in {IndexFrom(str, "/", k)}})

\* the segments of s between "/" characters, empty segments included
Split(s) == Only({SplitFrom(str, 1) : str \in {s}})

\* segments joined by "/"
RECURSIVE JoinSegs(_)
JoinSegs(segs) ==
    IF segs = <<>> THEN ""
    ELSE IF Len(segs) = 1 THEN segs[1]
    ELSE segs[1] \o "/" \o JoinSegs(Tail(segs))

(***************************************************************************)
(* node:path (posix)                                                       *)
(***************************************************************************)

\* the user's home directory, os.homedir()
Home == "/Users/u"

\* the working directory of the process, process.cwd()
Cwd == "/Users/u/w"

\* normalizeString: drops empty and "." segments, lets ".." remove the
\* segment before it; above the root ".." is dropped (or kept, for a
\* relative path)
RECURSIVE NormSegs(_, _, _)
NormSegs(segs, acc, allowAboveRoot) ==
    IF segs = <<>> THEN acc
    ELSE Only({IF s = "" \/ s = "." THEN NormSegs(r, a, allowAboveRoot)
               ELSE IF s = ".." THEN
                   IF a # <<>> /\ a[Len(a)] # ".."
                       THEN NormSegs(r, SubSeq(a, 1, Len(a) - 1), allowAboveRoot)
                   ELSE IF allowAboveRoot THEN NormSegs(r, Append(a, ".."), allowAboveRoot)
                   ELSE NormSegs(r, a, allowAboveRoot)
               ELSE NormSegs(r, Append(a, s), allowAboveRoot)
               : s \in {Head(segs)}, r \in {Tail(segs)}, a \in {acc}})

NormalizeString(p, allowAboveRoot) == JoinSegs(NormSegs(Split(p), <<>>, allowAboveRoot))

IsAbsolute(p) == StartsWith(p, "/")

\* path.resolve(p): an absolute path without ".", ".." or empty segments
\* and without a trailing slash; a relative p is taken from the working
\* directory
Resolve(p) ==
    IF p = "" THEN "/" \o NormalizeString(Cwd, FALSE)
    ELSE IF IsAbsolute(p) THEN "/" \o NormalizeString(p, FALSE)
    ELSE "/" \o NormalizeString(Cwd \o "/" \o p, FALSE)

\* path.normalize(p): as resolve but keeps a relative path relative and
\* keeps a trailing slash
Normalize(p) ==
    IF p = "" THEN "."
    ELSE Only({LET abs   == IsAbsolute(p)
                   trail == SubSeq(p, Len(p), Len(p)) = "/"
                   n1    == IF n0 = "" /\ ~abs THEN "." ELSE n0
                   n2    == IF n0 # "" /\ trail THEN n1 \o "/" ELSE n1
               IN  IF abs THEN "/" \o n2 ELSE n2
               : n0 \in {NormalizeString(p, ~IsAbsolute(p))}})

\* path.join(a, b): empty arguments are skipped, the rest is joined by "/"
\* and normalized
Join(a, b) ==
    IF a = "" /\ b = "" THEN "."
    ELSE IF a = "" THEN Normalize(b)
    ELSE IF b = "" THEN Normalize(a)
    ELSE Normalize(a \o "/" \o b)

\* path.dirname(p) of a normalized path
Dirname(p) ==
    Only({IF Len(segs) = 1 THEN "."
          ELSE LET d == JoinSegs(SubSeq(segs, 1, Len(segs) - 1))
               IN  IF d = "" THEN "/" ELSE d
          : segs \in {Split(p)}})

\* path.basename(p) of a normalized path
Basename(p) == Only({segs[Len(segs)] : segs \in {Split(p)}})

\* path.relative(from, to): both resolved, the common leading segments
\* removed, one ".." for each segment left of from
RECURSIVE CommonLen(_, _)
CommonLen(a, b) ==
    IF a = <<>> \/ b = <<>> THEN 0
    ELSE IF Head(a) # Head(b) THEN 0
    ELSE 1 + CommonLen(Tail(a), Tail(b))

Relative(from, to) ==
    Only({LET c   == CommonLen(f, t)
              ups == [i \in 1..(Len(f) - c) |-> ".."]
          IN  JoinSegs(ups \o SubSeq(t, c + 1, Len(t)))
          : f \in {NormSegs(Split(Resolve(from)), <<>>, FALSE)},
            t \in {NormSegs(Split(Resolve(to)), <<>>, FALSE)}})

(***************************************************************************)
(* utils/fs.ts: the path-safety predicates                                 *)
(***************************************************************************)

PROTECTED_PATHS ==
    {"/System", "/usr", "/bin", "/sbin", "/etc", "/var/log", "/var/db",
     "/var/root", "/private/var/db", "/private/var/root", "/private/var/log",
     "/Library/Apple", "/Applications/Utilities"}

ALLOWED_PATHS ==
    {"/tmp", "/private/tmp", "/var/tmp", "/private/var/tmp", "/var/folders",
     "/private/var/folders"}

\* resolved === p || resolved.startsWith(p + '/')
AtOrUnder(resolved, p) == resolved = p \/ StartsWith(resolved, p \o "/")

\* isProtectedPath matching by characters instead of whole segments
isProtectedPathByChars(path) ==
    LET resolved  == Resolve(path)
        isAllowed == \E p \in ALLOWED_PATHS : StartsWith(resolved, p)
    IN  IF isAllowed THEN FALSE
        ELSE \E p \in PROTECTED_PATHS : StartsWith(resolved, p)

isProtectedPath(path) ==
    LET resolved  == Resolve(path)
        isAllowed == \E p \in ALLOWED_PATHS : AtOrUnder(resolved, p)
    IN  IF isAllowed THEN FALSE
        ELSE \E p \in PROTECTED_PATHS : AtOrUnder(resolved, p)

\* utils/paths.ts: the list isSystemPath matches against
SYSTEM_PATHS ==
    {"/System", "/usr", "/bin", "/sbin", "/etc", "/var", "/private/var/db",
     "/private/var/root", "/Library/Apple", "/Applications/Utilities"}

isSystemPath(path) ==
    LET resolved == Resolve(path)
    IN  \E p \in SYSTEM_PATHS : AtOrUnder(resolved, p)

\* validatePathSafety comparing the path as written, not as resolved
validatePathSafetyUnresolved(path) ==
    IF isProtectedPath(path) THEN "Protected"
    ELSE IF path = "/" THEN "RootDirectory"
    ELSE IF path = Home THEN "HomeDirectory"
    ELSE "null"

\* the result of validatePathSafety: "null" when the path may be deleted,
\* otherwise the reason
validatePathSafety(path) ==
    LET resolved == Resolve(path)
    IN  IF isProtectedPath(resolved) THEN "Protected"
        ELSE IF resolved = "/" THEN "RootDirectory"
        ELSE IF resolved = Home THEN "HomeDirectory"
        ELSE "null"

(***************************************************************************)
(* The filesystem.  fsys maps the real path of every existing entry (no    *)
(* symbolic link among its ancestors) to its kind and data: the content of *)
(* a file, the target of a symbolic link.                                  *)
(***************************************************************************)

File(c)   == [kind |-> "file", data |-> c]
Dir       == [kind |-> "dir", data |-> ""]
Link(t)   == [kind |-> "link", data |-> t]

\* the most symbolic links followed while looking up one path (ELOOP)
MaxLinkDepth == 8

Child(dir, name) == IF dir = "/" THEN "/" \o name ELSE dir \o "/" \o name

\* the real path c is an entry of the directory with the real path dir
IsChild(c, dir) ==
    LET prefix == IF dir = "/" THEN "/" ELSE dir \o "/"
    IN  /\ StartsWith(c, prefix)
        /\ Len(c) > Len(prefix)
        /\ ~Includes(Slice(c, Len(prefix)), "/")

\* the name and ".." components of a path ("" and "." name nothing)
Components(p) == SelectSeq(Split(p), LAMBDA c : c # "" /\ c # ".")

\* The kernel's lookup of the components segs from the directory cur:
\* the real path of the entry named, whether it exists or not, a symbolic
\* link in the last component not followed; an intermediate symbolic link
\* is followed and ".." is the parent of the directory reached.  A result
\* that starts with "!" is an error.
RECURSIVE LocateFrom(_, _, _, _)
LocateFrom(fsys, cur, segs, fuel) ==
    IF segs = <<>> THEN cur
    ELSE IF cur \notin DOMAIN fsys THEN "!ENOENT"
    ELSE IF fsys[cur].kind # "dir" THEN "!ENOTDIR"
    ELSE Only({IF c = ".." THEN LocateFrom(fsys, Dirname(cur), r, fuel)
               ELSE IF r = <<>> THEN next
               ELSE IF next \notin DOMAIN fsys THEN "!ENOENT"
               ELSE IF fsys[next].kind = "link" THEN
                   IF fuel = 0 THEN "!ELOOP"
                   ELSE LocateFrom(fsys, "/", Components(fsys[next].data) \o r, fuel - 1)
               ELSE LocateFrom(fsys, next, r, fuel)
               : c \in {Head(segs)}, r \in {Tail(segs)},
                 next \in {Child(cur, Head(segs))}})

Locate(fsys, p) ==
    Only({LocateFrom(fsys, "/", segs, MaxLinkDepth)
          : segs \in {Components(IF IsAbsolute(p) THEN p ELSE Cwd \o "/" \o p)}})

IsError(loc) == StartsWith(loc, "!")

\* lstat(p): the kind of the entry, or the error
Lstat(fsys, p) ==
    Only({IF IsError(loc) THEN loc
          ELSE IF loc \notin DOMAIN fsys THEN "!ENOENT"
          ELSE fsys[loc].kind
          : loc \in {Locate(fsys, p)}})

\* the real paths of loc and everything below it
Subtree(fsys, loc) == {q \in DOMAIN fsys : AtOrUnder(q, loc)}

Without(fsys, gone) == [q \in DOMAIN fsys \ gone |-> fsys[q]]

\* unlink(p): removes a file or a symbolic link, never a directory
Unlink(fsys, p) ==
    Only({IF IsError(loc) THEN [err |-> loc, gone |-> {}]
          ELSE IF loc \notin DOMAIN fsys THEN [err |-> "!ENOENT", gone |-> {}]
          ELSE IF fsys[loc].kind = "dir" THEN [err |-> "!EPERM", gone |-> {}]
          ELSE [err |-> "", gone |-> {loc}]
          : loc \in {Locate(fsys, p)}})

\* rm(p, {recursive: true, force: true}): a missing path is no error; a
\* directory is removed with everything below it; anything else, a
\* symbolic link included, is unlinked
Rm(fsys, p) ==
    Only({IF loc = "!ENOENT" THEN [err |-> "", gone |-> {}]
          ELSE IF IsError(loc) THEN [err |-> loc, gone |-> {}]
          ELSE IF loc \notin DOMAIN fsys THEN [err |-> "", gone |-> {}]
          ELSE IF fsys[loc].kind = "dir" THEN [err |-> "", gone |-> Subtree(fsys, loc)]
          ELSE [err |-> "", gone |-> {loc}]
          : loc \in {Locate(fsys, p)}})

\* the real path p names when a symbolic link in the last component is
\* followed too
RECURSIVE LocateFollow(_, _, _)
LocateFollow(fsys, p, fuel) ==
    Only({IF IsError(loc) \/ loc \notin DOMAIN fsys THEN loc
          ELSE IF fsys[loc].kind # "link" THEN loc
          ELSE IF fuel = 0 THEN "!ELOOP"
          ELSE LocateFollow(fsys, fsys[loc].data, fuel - 1)
          : loc \in {Locate(fsys, p)}})

\* a directory whose entries cannot be listed (EACCES)
UnreadableDir == [kind |-> "dir", data |-> "unreadable"]

\* readdir(dir, { withFileTypes: true }): the entries of the directory
\* with Dirent.isDirectory(), or the error
Readdir(fsys, dir) ==
    Only({IF IsError(loc) THEN [err |-> loc, entries |-> {}]
          ELSE IF loc \notin DOMAIN fsys THEN [err |-> "!ENOENT", entries |-> {}]
          ELSE IF fsys[loc].kind # "dir" THEN [err |-> "!ENOTDIR", entries |-> {}]
          ELSE IF fsys[loc] = UnreadableDir THEN [err |-> "!EACCES", entries |-> {}]
          ELSE [err |-> "",
                entries |-> {[name |-> Basename(q), isDir |-> fsys[q].kind = "dir"] :
                                q \in {c \in DOMAIN fsys : IsChild(c, loc)}}]
          : loc \in {LocateFollow(fsys, dir, MaxLinkDepth)}})

\* the filesystem with a directory made at the real path made
WithDir(fsys, made) ==
    [q \in DOMAIN fsys \cup {made} |-> IF q = made THEN Dir ELSE fsys[q]]

\* mkdir of p when its parent was made with the result up
MkdirIn(up, p) ==
    IF up.err # "" THEN up
    ELSE Only({IF IsError(made) THEN [err |-> made, fs |-> up.fs]
               ELSE [err |-> "", fs |-> WithDir(up.fs, made)]
               : made \in {Locate(up.fs, p)}})

\* mkdir(p, { recursive: true }): creates p and its missing ancestors
RECURSIVE MkdirP(_, _)
MkdirP(fsys, p) ==
    Only({IF IsError(loc) /\ loc # "!ENOENT" THEN [err |-> loc, fs |-> fsys]
          ELSE IF ~IsError(loc) /\ loc \in DOMAIN fsys THEN
              IF fsys[loc].kind = "dir" THEN [err |-> "", fs |-> fsys]
              ELSE [err |-> "!EEXIST", fs |-> fsys]
          ELSE Only({MkdirIn(up, p) : up \in {MkdirP(fsys, Dirname(p))}})
          : loc \in {LocateFollow(fsys, p, MaxLinkDepth)}})

\* the entries below the real path s moved below the real path d
Moved(fsys, s, d) ==
    Only({[q \in DOMAIN rest \cup dest |->
              IF q \in dest THEN fsys[s \o Slice(q, Len(d))] ELSE rest[q]]
          : rest \in {Without(fsys, Subtree(fsys, s) \cup {d})},
            dest \in {{d \o Slice(q, Len(s)) : q \in Subtree(fsys, s)}}})

\* rename(src, dst): moves the entry and everything below it, replacing a
\* file or an empty directory at dst
Rename(fsys, src, dst) ==
    Only({IF IsError(s) THEN [err |-> s, fs |-> fsys]
          ELSE IF s \notin DOMAIN fsys THEN [err |-> "!ENOENT", fs |-> fsys]
          ELSE IF IsError(d) THEN [err |-> d, fs |-> fsys]
          ELSE IF Dirname(d) \notin DOMAIN fsys THEN [err |-> "!ENOENT", fs |-> fsys]
          ELSE IF fsys[Dirname(d)].kind # "dir" THEN [err |-> "!ENOTDIR", fs |-> fsys]
          ELSE IF s = d THEN [err |-> "", fs |-> fsys]
          ELSE IF AtOrUnder(d, s) THEN [err |-> "!EINVAL", fs |-> fsys]
          ELSE IF d \in DOMAIN fsys /\ fsys[d].kind = "dir" /\ fsys[s].kind # "dir"
              THEN [err |-> "!EISDIR", fs |-> fsys]
          ELSE IF d \in DOMAIN fsys /\ fsys[d].kind # "dir" /\ fsys[s].kind = "dir"
              THEN [err |-> "!ENOTDIR", fs |-> fsys]
          ELSE IF d \in DOMAIN fsys /\ Subtree(fsys, d) # {d}
              THEN [err |-> "!ENOTEMPTY", fs |-> fsys]
          ELSE [err |-> "", fs |-> Moved(fsys, s, d)]
          : s \in {Locate(fsys, src)}, d \in {Locate(fsys, dst)}})

(***************************************************************************)
(* State                                                                   *)
(***************************************************************************)

VARIABLES
    arg,        \* the path handed to a path predicate
    out,        \* the predicate called last and its result
    fs,         \* the filesystem
    rmPc,       \* where the running removeItem call stands
    rmPath,     \* its path argument
    rmDry,      \* its dryRun argument
    rmIsLink,   \* stats.isSymbolicLink() of its re-stat
    rmResult,   \* its return value, "none" until it returns
    rmOps,      \* what the call did so far, in order
    rmBefore,   \* the filesystem when the call started
    rmGone,     \* the real paths of the entries the call deleted
    rmLinks,    \* the targets of the symbolic links the call met at its path
    rmCalls,    \* the number of removeItem calls made
    swaps,      \* the number of changes made by the concurrent process
    bkPc,       \* where the backup manager stands
    bkTried,    \* the items backupItem was called with
    bkBacked,   \* the files for which backupItem returned true
    planted,    \* what was put into the session directory from outside
    rsArg,      \* the argument of the running restoreBackup call
    rsDir,      \* resolvedBackupDir
    rsStack,    \* the restoreDir calls in progress, innermost last
    rsSuccess,  \* success
    rsFailed,   \* failed
    rsErrors,   \* errors
    rsLog,      \* the non-directory entries handled so far and their outcome
    rsHandled,  \* the number of times a non-directory entry was handled
    rsStart,    \* the filesystem when restoreBackup was called
    cfgFiles,     \* the config files: what is at each config path
    cachedConfig, \* cachedConfig of config.ts
    cfgOut,       \* the last config call and what it returned
    cfgReads,     \* the files the last loadConfig call read
    cfgOps,       \* the number of config calls made
    cfgFirst,     \* what the loadConfig() that filled the empty cache returned
    riPc,       \* where the running removeItems call stands
    riItems,    \* its items
    riDry,      \* its dryRun argument
    riIdx,      \* i + 1 of its loop
    riSuccess,  \* success
    riFailed,   \* failed
    riFreed,    \* freedSpace
    riLog,      \* the progress callbacks and the removals, in order
    biPc,       \* where the running backupItems call stands
    biItems,    \* its items
    biIdx,      \* i + 1 of its loop
    biSuccess,  \* success
    biFailed,   \* failed
    biLog,      \* the progress callbacks and the results of backupItem, in order
    scPc,       \* where the running runAllScans call stands
    scCursor,   \* the number of scanners handed to a worker
    scWorkers,  \* for each worker of the pool the scanner it is running, 0 for none
    scDone,     \* completedCount
    scProgress, \* the progress callbacks, in order
    scResults,  \* the result of each scanner that finished
    ages,       \* for each filesystem entry the days since its modification time
    cbPc,       \* where the running cleanOldBackups call stands
    cbEntries,  \* the entries of the backup root it has still to look at
    cbCleaned,  \* cleaned
    cbFailed,   \* the entries whose stat or rm failed
    cbStart,    \* the filesystem when cleanOldBackups was called
    clock,      \* Date.now(), in milliseconds after midnight of the current day
    ebDirs,     \* the session directories ensureBackupDir returned, in order
    cmPc,       \* where the running command stands
    cmCmd,      \* the command that runs: cleanCommand or uninstallCommand
    cmOpts,     \* its options
    cmResults,  \* the results of the scan cleanCommand ran
    cmApps,     \* the installed applications uninstallCommand found
    cmSelected, \* selectedItems of cleanCommand, appsToRemove of uninstallCommand
    cmIdx,      \* how many of them the removal loop has been through
    cmLog,      \* the prompts shown and the removal steps invoked, in order
    dkRes,      \* the reclaimable bytes of each Docker resource type
    dkStart,    \* the same when DockerScanner.clean was called
    dkOut       \* what DockerScanner.clean returned

pathVars == <<arg, out>>

rmVars == <<rmPc, rmPath, rmDry, rmIsLink, rmResult, rmOps, rmBefore, rmGone,
            rmLinks, rmCalls, swaps>>

bkVars == <<bkPc, bkTried, bkBacked, planted>>

rsVars == <<rsArg, rsDir, rsStack, rsSuccess, rsFailed, rsErrors, rsLog, rsHandled,
           rsStart>>

cfgVars == <<cfgFiles, cachedConfig, cfgOut, cfgReads, cfgOps, cfgFirst>>

riVars == <<riPc, riItems, riDry, riIdx, riSuccess, riFailed, riFreed, riLog>>

biVars == <<biPc, biItems, biIdx, biSuccess, biFailed, biLog>>

scVars == <<scPc, scCursor, scWorkers, scDone, scProgress, scResults>>

cbVars == <<ages, cbPc, cbEntries, cbCleaned, cbFailed, cbStart>>

ebVars == <<clock, ebDirs>>

cmVars == <<cmPc, cmCmd, cmOpts, cmResults, cmApps, cmSelected, cmIdx, cmLog>>

dkVars == <<dkRes, dkStart, dkOut>>

extraVars == <<cbVars, ebVars, cmVars, dkVars>>

\* the parts only one specification runs
otherVars == <<cfgVars, biVars, scVars, extraVars>>

vars == <<arg, out, fs, rmPc, rmPath, rmDry, rmIsLink, rmResult, rmOps, rmBefore,
          rmGone, rmLinks, rmCalls, swaps, bkPc, bkTried, bkBacked, planted, rsArg,
          rsDir, rsStack, rsSuccess, rsFailed, rsErrors, rsLog, rsHandled, rsStart,
          cfgVars, riVars, biVars, scVars, extraVars>>

\* the state of a part of the program that a specification does not run
EmptyFs == [q \in {"/"} |-> Dir]

PathIdle == arg = "/" /\ out = [fn |-> "none", prot |-> FALSE, safety |-> "null"]

RmIdle ==
    /\ rmPc = "idle"
    /\ rmPath = "/"
    /\ rmDry = FALSE
    /\ rmIsLink = FALSE
    /\ rmResult = "none"
    /\ rmOps = <<>>
    /\ rmBefore = EmptyFs
    /\ rmGone = {}
    /\ rmLinks = {}
    /\ rmCalls = 0
    /\ swaps = 0

RsIdle ==
    /\ rsArg = "/"
    /\ rsDir = "/"
    /\ rsStack = <<>>
    /\ rsSuccess = 0
    /\ rsFailed = 0
    /\ rsErrors = <<>>
    /\ rsLog = {}
    /\ rsHandled = 0
    /\ rsStart = EmptyFs

BkIdle ==
    /\ bkPc = "idle"
    /\ bkTried = {}
    /\ bkBacked = {}
    /\ planted = {}
    /\ RsIdle

\* cachedConfig when it is null
NullConfig == [null |-> TRUE]

CfgIdle ==
    /\ cfgFiles = <<>>
    /\ cachedConfig = NullConfig
    /\ cfgOut = [fn |-> "none"]
    /\ cfgReads = <<>>
    /\ cfgOps = 0
    /\ cfgFirst = NullConfig

RiIdle ==
    /\ riPc = "idle"
    /\ riItems = <<>>
    /\ riDry = FALSE
    /\ riIdx = 0
    /\ riSuccess = 0
    /\ riFailed = 0
    /\ riFreed = 0
    /\ riLog = <<>>

BiIdle ==
    /\ biPc = "idle"
    /\ biItems = <<>>
    /\ biIdx = 0
    /\ biSuccess = 0
    /\ biFailed = 0
    /\ biLog = <<>>

ScIdle ==
    /\ scPc = "idle"
    /\ scCursor = 0
    /\ scWorkers = <<>>
    /\ scDone = 0
    /\ scProgress = <<>>
    /\ scResults = <<>>

CbIdle ==
    /\ ages = <<>>
    /\ cbPc = "idle"
    /\ cbEntries = {}
    /\ cbCleaned = 0
    /\ cbFailed = {}
    /\ cbStart = EmptyFs

EbIdle == clock = 0 /\ ebDirs = <<>>

NoOptions == [all |-> FALSE, yes |-> FALSE, dryRun |-> FALSE, unsafe |-> FALSE]

CmIdle ==
    /\ cmPc = "idle"
    /\ cmCmd = "none"
    /\ cmOpts = NoOptions
    /\ cmResults = <<>>
    /\ cmApps = <<>>
    /\ cmSelected = <<>>
    /\ cmIdx = 0
    /\ cmLog = <<>>

NoResult == [cleanedItems |-> 0, freedSpace |-> 0, errors |-> <<>>]

DkIdle == dkRes = <<>> /\ dkStart = <<>> /\ dkOut = NoResult

ExtraIdle == CbIdle /\ EbIdle /\ CmIdle /\ DkIdle

OtherIdle == CfgIdle /\ BiIdle /\ ScIdle /\ ExtraIdle

(***************************************************************************)
(* The path predicates applied to arbitrary path strings                   *)
(***************************************************************************)

\* the longest tail appended to a root to form an input path
MaxTail == 3

TailSegs == {"x", "..", ".", ""}

PathRoots ==
    PROTECTED_PATHS \cup ALLOWED_PATHS \cup
    {"/", Home, "/Users", "/usrlocal", "/etcetera", "/var", "/var/logs",
     "/private", "/private/var", "/tmpx", "/Applications", "..", ".", "x"}

RECURSIVE Tails(_)
Tails(n) ==
    IF n = 0 THEN {""}
    ELSE LET T == Tails(n - 1)
         IN  T \cup {t \o "/" \o s : t \in T, s \in TailSegs}

PathInputs == {r \o t : r \in PathRoots, t \in Tails(MaxTail)}

NoOut == [fn |-> "none", prot |-> FALSE, safety |-> "null"]

PathInit ==
    /\ arg \in PathInputs
    /\ out = NoOut
    /\ fs = EmptyFs
    /\ RmIdle
    /\ BkIdle
    /\ RiIdle
    /\ OtherIdle

CallIsProtectedPath ==
    /\ out.fn = "none"
    /\ out' = [fn |-> "isProtectedPath", prot |-> isProtectedPath(arg), safety |-> "null"]
    /\ UNCHANGED <<otherVars, riVars, arg, fs, rmVars, bkVars, rsVars>>

CallValidatePathSafety ==
    /\ out.fn = "none"
    /\ out' = [fn |-> "validatePathSafety", prot |-> FALSE, safety |-> validatePathSafety(arg)]
    /\ UNCHANGED <<otherVars, riVars, arg, fs, rmVars, bkVars, rsVars>>

CallIsSystemPath ==
    /\ out.fn = "none"
    /\ out' = [fn |-> "isSystemPath", prot |-> isSystemPath(arg), safety |-> "null"]
    /\ UNCHANGED <<otherVars, riVars, arg, fs, rmVars, bkVars, rsVars>>

PathNext ==
    \/ CallIsProtectedPath
    \/ CallValidatePathSafety
    \/ CallIsSystemPath

SpecPath == PathInit /\ [][PathNext]_vars

(***************************************************************************)
(* utils/paths.ts: expandPath and hasTraversalPattern                      *)
(***************************************************************************)

\* String.prototype.endsWith
EndsWith(s, p) == Len(s) >= Len(p) /\ SubSeq(s, Len(s) - Len(p) + 1, Len(s)) = p

\* /\/\.\.($|\/)/.test(path)
MatchesSlashDotDot(path) == EndsWith(path, "/..") \/ Includes(path, "/../")

hasTraversalPattern(path) ==
    \/ Includes(path, "../")
    \/ Includes(path, "/..")
    \/ path = ".."
    \/ MatchesSlashDotDot(path)

\* expandPath letting through every path that starts with the characters
\* of the home directory
expandPathByChars(path, allowOutsideHome) ==
    Only({IF ~allowOutsideHome /\ StartsWith(path, "~") /\ ~StartsWith(resolved, Home)
              THEN [threw |-> TRUE, result |-> "Path traversal detected"]
          ELSE [threw |-> FALSE, result |-> resolved]
          : resolved \in {Resolve(IF StartsWith(path, "~/") THEN Join(Home, Slice(path, 2))
                                  ELSE IF path = "~" THEN Home
                                  ELSE path)}})

\* expandPath: what it returns, or that it threw
expandPath(path, allowOutsideHome) ==
    Only({IF /\ ~allowOutsideHome
             /\ StartsWith(path, "~")
             /\ ~StartsWith(resolved, Home \o "/")
             /\ resolved # Home
              THEN [threw |-> TRUE, result |-> "Path traversal detected"]
          ELSE [threw |-> FALSE, result |-> resolved]
          : resolved \in {Resolve(IF StartsWith(path, "~/") THEN Join(Home, Slice(path, 2))
                                  ELSE IF path = "~" THEN Home
                                  ELSE path)}})

\* the most segments appended to a head to form an input path
MaxSegs == 3

ExpandHeads == {"~", "", "/Users", "a..b", ".", "..", "..foo"}

ExpandSegs == {"..", "..foo", "foo..", "u2", "x"}

RECURSIVE SegTails(_)
SegTails(n) ==
    IF n = 0 THEN {""}
    ELSE Only({T \cup {t \o "/" \o seg : t \in T, seg \in ExpandSegs} : T \in {SegTails(n - 1)}})

ExpandInputs == {h \o t : h \in ExpandHeads, t \in SegTails(MaxSegs)}

ExpandInit ==
    /\ arg \in ExpandInputs
    /\ out = NoOut
    /\ fs = EmptyFs
    /\ RmIdle
    /\ BkIdle
    /\ RiIdle
    /\ OtherIdle

CallHasTraversalPattern ==
    /\ out.fn = "none"
    /\ out' = [fn |-> "hasTraversalPattern", result |-> hasTraversalPattern(arg)]
    /\ UNCHANGED <<arg, fs, rmVars, bkVars, rsVars, riVars, otherVars>>

CallExpandPath(allowOutsideHome) ==
    /\ out.fn = "none"
    /\ \E r \in {expandPath(arg, allowOutsideHome)} :
          out' = [fn |-> "expandPath", allowOutsideHome |-> allowOutsideHome,
                  threw |-> r.threw, result |-> r.result]
    /\ UNCHANGED <<arg, fs, rmVars, bkVars, rsVars, riVars, otherVars>>

ExpandNext ==
    \/ CallHasTraversalPattern
    \/ \E allowOutsideHome \in BOOLEAN : CallExpandPath(allowOutsideHome)

SpecExpand == ExpandInit /\ [][ExpandNext]_vars

(***************************************************************************)
(* utils/config.ts: the values JSON.parse gives, validateConfig            *)
(***************************************************************************)

\* JSON values, each a pair of its type and its content: j[1] is the type,
\* j[2] the content.  A number is an integer (JNum) or has a fraction (JFrac);
\* byte counts are written in units of 1 KiB
JNum(n)  == <<"num", n>>
JFrac    == <<"frac", 0>>
JStr(str) == <<"str", str>>
JBool(b) == <<"bool", b>>
JNull    == <<"null", 0>>
JArr(a)  == <<"arr", a>>
JObj(f)  == <<"obj", f>>

\* an object, or a config, without keys
NoKeys == [k \in {} |-> 0]

\* config.key !== undefined
Has(config, key) == config[1] = "obj" /\ key \in DOMAIN config[2]

\* Boolean(v)
Truthy(v) ==
    CASE v[1] = "num"  -> v[2] # 0
      [] v[1] = "str"  -> v[2] # ""
      [] v[1] = "bool" -> v[2]
      [] v[1] = "null" -> FALSE
      [] OTHER        -> TRUE

Digits == <<"0", "1", "2", "3", "4", "5", "6", "7", "8", "9">>

IsDigit(c) == \E d \in DOMAIN Digits : Digits[d] = c

DigitValue(c) == (CHOOSE d \in DOMAIN Digits : Digits[d] = c) - 1

\* the string without the spaces around it
RECURSIVE Trim(_)
Trim(str) ==
    IF str = "" THEN ""
    ELSE IF SubSeq(str, 1, 1) = " " THEN Only({Trim(t) : t \in {SubSeq(str, 2, Len(str))}})
    ELSE IF SubSeq(str, Len(str), Len(str)) = " "
        THEN Only({Trim(t) : t \in {SubSeq(str, 1, Len(str) - 1)}})
    ELSE str

\* the value of a string of decimal digits read after the value acc
RECURSIVE DigitsValue(_, _)
DigitsValue(str, acc) ==
    IF str = "" THEN acc
    ELSE Only({DigitsValue(t, a) : t \in {SubSeq(str, 2, Len(str))},
                                   a \in {10 * acc + DigitValue(SubSeq(str, 1, 1))}})

NotANumber == [int |-> FALSE, n |-> 0]

\* Number(str): spaces around are skipped, the empty string is 0, decimal
\* digits are their value, anything else here is NaN
StringToNumber(str) ==
    Only({IF \A i \in 1..Len(t) : IsDigit(SubSeq(t, i, i))
              THEN [int |-> TRUE, n |-> DigitsValue(t, 0)]
          ELSE NotANumber
          : t \in {Trim(str)}})

\* Number(v) with Number.isInteger of it
RECURSIVE ToNumber(_)
ToNumber(v) ==
    CASE v[1] = "num"  -> [int |-> TRUE, n |-> v[2]]
      [] v[1] = "frac" -> NotANumber
      [] v[1] = "str"  -> StringToNumber(v[2])
      [] v[1] = "bool" -> [int |-> TRUE, n |-> IF v[2] THEN 1 ELSE 0]
      [] v[1] = "null" -> [int |-> TRUE, n |-> 0]
      [] v[1] = "arr"  -> IF v[2] = <<>> THEN [int |-> TRUE, n |-> 0]
                         ELSE IF Len(v[2]) = 1 /\ v[2][1][1] \in {"num", "frac", "str"}
                             THEN ToNumber(v[2][1])
                         ELSE NotANumber
      [] OTHER        -> NotANumber

VALID_CATEGORIES ==
    <<"system-cache", "system-logs", "browser-cache", "dev-cache", "node-modules",
      "downloads", "trash", "temp-files", "ios-backups", "mail-attachments",
      "large-files", "duplicates", "docker", "homebrew", "language-files">>

maxExtraPaths == 50

\* CONFIG_CONSTRAINTS; largeFilesMinSize in KiB
CONFIG_CONSTRAINTS ==
    [downloadsDaysOld    |-> [min |-> 1, max |-> 365],
     largeFilesMinSize   |-> [min |-> 1, max |-> 100 * 1024 * 1024],
     backupRetentionDays |-> [min |-> 1, max |-> 365],
     concurrency         |-> [min |-> 1, max |-> 16]]

\* DEFAULT_CONFIG; largeFilesMinSize in KiB
DEFAULT_CONFIG ==
    [downloadsDaysOld    |-> 30,
     largeFilesMinSize   |-> 500 * 1024,
     backupEnabled       |-> FALSE,
     backupRetentionDays |-> 7,
     parallelScans       |-> TRUE,
     concurrency         |-> 4]

NumericFields == {"downloadsDaysOld", "largeFilesMinSize", "backupRetentionDays", "concurrency"}

\* a numeric field of validated: set when the value is an integer in bounds
ValidatedNumber(config, key) ==
    IF ~Has(config, key) THEN NoKeys
    ELSE Only({IF ~val.int \/ val.n < CONFIG_CONSTRAINTS[key].min
                           \/ val.n > CONFIG_CONSTRAINTS[key].max
                   THEN NoKeys
               ELSE key :> val.n
               : val \in {ToNumber(config[2][key])}})

ValidatedBoolean(config, key) ==
    IF ~Has(config, key) THEN NoKeys ELSE key :> Truthy(config[2][key])

\* list.filter(cat => VALID_CATEGORIES.includes(cat))
FilterCategories(list) ==
    SelectSeq(list, LAMBDA cat : cat[1] = "str"
                                 /\ \E i \in DOMAIN VALID_CATEGORIES : VALID_CATEGORIES[i] = cat[2])

\* the strings of a list of JSON strings
Strings(list) == [i \in DOMAIN list |-> list[i][2]]

ValidatedCategories(config, key) ==
    IF Has(config, key) /\ config[2][key][1] = "arr"
        THEN key :> Strings(FilterCategories(config[2][key][2]))
    ELSE NoKeys

\* the filter of validatePaths: resolve(p) is an allowed prefix or below one
IsAllowedExtraPath(p) ==
    Only({\E prefix \in {Home, "/Users", "/Volumes"} :
              StartsWith(resolved, prefix \o "/") \/ resolved = prefix
          : resolved \in {Resolve(p)}})

\* validatePaths testing the path as written, not as resolved
validatePathsUnresolved(paths) ==
    IF paths[1] # "arr" THEN <<>>
    ELSE Only({SelectSeq([i \in DOMAIN first |->
                             IF StartsWith(first[i], "~/") THEN Join(Home, Slice(first[i], 2))
                             ELSE first[i]],
                         LAMBDA p : \E prefix \in {Home, "/Users", "/Volumes"} :
                                       StartsWith(p, prefix \o "/") \/ p = prefix)
               : first \in {Only({SubSeq(strs, 1, IF Len(strs) < maxExtraPaths THEN Len(strs)
                                                  ELSE maxExtraPaths)
                                  : strs \in {Strings(SelectSeq(paths[2], LAMBDA p : p[1] = "str"))}})}})

\* validatePaths: the strings, the first maxExtraPaths of them, "~/"
\* expanded, those outside the allowed directories dropped
validatePaths(paths) ==
    IF paths[1] # "arr" THEN <<>>
    ELSE Only({SelectSeq([i \in DOMAIN first |->
                             IF StartsWith(first[i], "~/") THEN Join(Home, Slice(first[i], 2))
                             ELSE first[i]],
                         IsAllowedExtraPath)
               : first \in {Only({SubSeq(strs, 1, IF Len(strs) < maxExtraPaths THEN Len(strs)
                                                  ELSE maxExtraPaths)
                                  : strs \in {Strings(SelectSeq(paths[2], LAMBDA p : p[1] = "str"))}})}})

\* config.extraPaths.key of an extraPaths that is an object or an array
ValidatedPaths(extraPaths, key) ==
    IF extraPaths[1] = "obj" /\ key \in DOMAIN extraPaths[2] /\ Truthy(extraPaths[2][key])
        THEN key :> validatePaths(extraPaths[2][key])
    ELSE NoKeys

\* validateConfig(config): validated, or that it threw a TypeError (a
\* property read of null)
validateConfig(config) ==
    IF config[1] = "null" THEN [threw |-> TRUE, validated |-> NoKeys]
    ELSE IF Has(config, "extraPaths") /\ config[2]["extraPaths"][1] = "null"
        THEN [threw |-> TRUE, validated |-> NoKeys]
    ELSE [threw |-> FALSE,
          validated |->
              ValidatedNumber(config, "downloadsDaysOld")
              @@ ValidatedNumber(config, "largeFilesMinSize")
              @@ ValidatedNumber(config, "backupRetentionDays")
              @@ ValidatedNumber(config, "concurrency")
              @@ ValidatedBoolean(config, "backupEnabled")
              @@ ValidatedBoolean(config, "parallelScans")
              @@ ValidatedCategories(config, "defaultCategories")
              @@ ValidatedCategories(config, "excludeCategories")
              @@ (IF Has(config, "extraPaths") /\ config[2]["extraPaths"][1] \in {"obj", "arr"}
                      THEN "extraPaths" :>
                               (ValidatedPaths(config[2]["extraPaths"], "nodeModules")
                                @@ ValidatedPaths(config[2]["extraPaths"], "projects"))
                  ELSE NoKeys)]

(***************************************************************************)
(* utils/config.ts: loadConfig, saveConfig, clearConfigCache               *)
(***************************************************************************)

CONFIG_PATHS ==
    <<Join(Home, ".maccleanerrc"),
      Join(Join(Join(Home, ".config"), "mac-cleaner-cli"), "config.json")>>

\* content.length > 100 * 1024
MaxConfigLength == 100 * 1024

\* what JSON.parse throws on
SyntaxError == <<"SyntaxError", 0>>

\* a file of that many characters and what JSON.parse makes of them
TextFile(length, parsed) == [kind |-> "file", length |-> length, parsed |-> parsed]

\* JSON.stringify(config) as JSON.parse reads it back
ToJson(config) ==
    JObj([k \in DOMAIN config |->
            IF k \in NumericFields THEN JNum(config[k])
            ELSE IF k \in {"backupEnabled", "parallelScans"} THEN JBool(config[k])
            ELSE IF k \in {"defaultCategories", "excludeCategories"}
                THEN JArr([i \in DOMAIN config[k] |-> JStr(config[k][i])])
            ELSE JObj([e \in DOMAIN config[k] |->
                          JArr([i \in DOMAIN config[k][e] |-> JStr(config[k][e][i])])])])

\* the body of the try block of loadConfig without the test of the length
ReadConfigFileUncapped(files, path) ==
    Only({IF at \notin DOMAIN files THEN [ok |-> FALSE, why |-> "ENOENT"]
          ELSE IF files[at].parsed = SyntaxError THEN [ok |-> FALSE, why |-> "SyntaxError"]
          ELSE Only({IF v.threw THEN [ok |-> FALSE, why |-> "TypeError"]
                     ELSE [ok |-> TRUE, config |-> v.validated @@ DEFAULT_CONFIG]
                     : v \in {validateConfig(files[at].parsed)}})
          : at \in {Resolve(path)}})

\* the body of the try block of loadConfig for one path: the config to
\* cache, or why the loop goes on
ReadConfigFile(files, path) ==
    Only({IF at \notin DOMAIN files THEN [ok |-> FALSE, why |-> "ENOENT"]
          ELSE IF files[at].length > MaxConfigLength THEN [ok |-> FALSE, why |-> "too large"]
          ELSE IF files[at].parsed = SyntaxError THEN [ok |-> FALSE, why |-> "SyntaxError"]
          ELSE Only({IF v.threw THEN [ok |-> FALSE, why |-> "TypeError"]
                     ELSE [ok |-> TRUE, config |-> v.validated @@ DEFAULT_CONFIG]
                     : v \in {validateConfig(files[at].parsed)}})
          : at \in {Resolve(path)}})

\* for (const path of paths): the config returned and the paths tried
RECURSIVE LoadFrom(_, _)
LoadFrom(files, paths) ==
    IF paths = <<>> THEN [config |-> DEFAULT_CONFIG, tried |-> <<>>]
    ELSE Only({IF r.ok THEN [config |-> r.config, tried |-> <<Head(paths)>>]
               ELSE Only({[config |-> l.config, tried |-> <<Head(paths)>> \o l.tried]
                          : l \in {LoadFrom(files, Tail(paths))}})
               : r \in {ReadConfigFile(files, Head(paths))}})

\* the test of a custom config path
IsAllowedConfigPath(configPath) ==
    Only({\E dir \in {Home, Join(Home, ".config")} :
              StartsWith(resolved, dir \o "/") \/ resolved = dir
          : resolved \in {Resolve(configPath)}})

\* the most config calls in one run
MaxConfigOps == 3

\* the test with the sense of the cache check inverted
CacheMissServed(cached, configPath) == cached = NullConfig /\ configPath = "undefined"

\* if (cachedConfig && !configPath)
CacheHit(cached, configPath) == cached # NullConfig /\ configPath = "undefined"

\* loadConfig(configPath); "undefined" stands for no argument
LoadConfig(configPath) ==
    /\ cfgOps < MaxConfigOps
    /\ cfgOps' = cfgOps + 1
    /\ IF CacheHit(cachedConfig, configPath)
          THEN /\ cfgOut' = [fn |-> "loadConfig", path |-> configPath, threw |-> FALSE,
                             result |-> cachedConfig]
               /\ cfgReads' = <<>>
               /\ UNCHANGED <<cachedConfig, cfgFirst>>
       ELSE IF configPath # "undefined" /\ ~IsAllowedConfigPath(configPath)
          THEN /\ cachedConfig' = DEFAULT_CONFIG
               /\ cfgOut' = [fn |-> "loadConfig", path |-> configPath, threw |-> FALSE,
                             result |-> DEFAULT_CONFIG]
               /\ cfgReads' = <<>>
               /\ cfgFirst' = IF cfgFirst = NullConfig THEN DEFAULT_CONFIG ELSE cfgFirst
       ELSE \E l \in {LoadFrom(cfgFiles, IF configPath # "undefined" THEN <<configPath>>
                                         ELSE CONFIG_PATHS)} :
               /\ cachedConfig' = l.config
               /\ cfgOut' = [fn |-> "loadConfig", path |-> configPath, threw |-> FALSE,
                             result |-> l.config]
               /\ cfgReads' = l.tried
               /\ cfgFirst' = IF cfgFirst = NullConfig THEN l.config ELSE cfgFirst
    /\ UNCHANGED <<cfgFiles, arg, out, fs, rmVars, bkVars, rsVars, riVars, biVars, scVars, extraVars>>

\* saveConfig(config, configPath); ioOk is false when writeFile fails
SaveConfig(config, configPath, ioOk) ==
    /\ cfgOps < MaxConfigOps
    /\ cfgOps' = cfgOps + 1
    /\ cfgReads' = <<>>
    /\ IF ioOk
          THEN /\ \E at \in {Resolve(IF configPath = "undefined" THEN CONFIG_PATHS[1]
                                     ELSE configPath)} :
                      cfgFiles' = [q \in DOMAIN cfgFiles \cup {at} |->
                                      IF q = at THEN TextFile(Cardinality(DOMAIN config), ToJson(config))
                                      ELSE cfgFiles[q]]
               /\ cachedConfig' = config
               /\ cfgOut' = [fn |-> "saveConfig", path |-> configPath, threw |-> FALSE,
                             result |-> config]
          ELSE /\ cfgOut' = [fn |-> "saveConfig", path |-> configPath, threw |-> TRUE,
                             result |-> config]
               /\ UNCHANGED <<cfgFiles, cachedConfig>>
    /\ UNCHANGED <<cfgFirst, arg, out, fs, rmVars, bkVars, rsVars, riVars, biVars, scVars, extraVars>>

ClearConfigCache ==
    /\ cfgOps < MaxConfigOps
    /\ cfgOps' = cfgOps + 1
    /\ cachedConfig' = NullConfig
    /\ cfgFirst' = NullConfig
    /\ cfgReads' = <<>>
    /\ cfgOut' = [fn |-> "clearConfigCache", path |-> "undefined", threw |-> FALSE,
                  result |-> NullConfig]
    /\ UNCHANGED <<cfgFiles, arg, out, fs, rmVars, bkVars, rsVars, riVars, biVars, scVars, extraVars>>

\* a config path of the user's own, and one outside the home directory
CustomConfigPath == Join(Home, "my.json")

OutsideConfigPath == "/etc/cfg.json"

\* what the config files hold when the process starts
ConfigFileSets ==
    {[q \in {CONFIG_PATHS[1], OutsideConfigPath} \cup ({CONFIG_PATHS[2]} \ p2)
            \cup ({CustomConfigPath} \ p3) |->
         IF q = CONFIG_PATHS[1] THEN f1
         ELSE IF q = CONFIG_PATHS[2] THEN TextFile(24, JObj("downloadsDaysOld" :> JNum(45)))
         ELSE IF q = CustomConfigPath THEN f3
         ELSE TextFile(20, JObj("concurrency" :> JNum(2)))]
     : f1 \in {TextFile(9, SyntaxError),
               TextFile(MaxConfigLength + 1, JObj("concurrency" :> JNum(8))),
               TextFile(MaxConfigLength, JObj("concurrency" :> JNum(8))),
               TextFile(4, JNull)},
       f3 \in {TextFile(12, SyntaxError), TextFile(22, JObj("backupRetentionDays" :> JNum(3)))},
       p2 \in {{}, {CONFIG_PATHS[2]}},
       p3 \in {{}, {CustomConfigPath}}}

\* the config files at the start, the first of them possibly missing
ConfigFileSetsAll ==
    ConfigFileSets \cup {[q \in DOMAIN f \ {CONFIG_PATHS[1]} |-> f[q]] : f \in ConfigFileSets}

\* the configs saveConfig is called with: every field of Config set, one
\* number above its bound
SaveInputs == {[DEFAULT_CONFIG EXCEPT !.concurrency = 12, !.downloadsDaysOld = 500]}

ConfigInit ==
    /\ PathIdle
    /\ RmIdle
    /\ BkIdle
    /\ RiIdle
    /\ BiIdle
    /\ ScIdle
    /\ ExtraIdle
    /\ fs = EmptyFs
    /\ cfgFiles \in ConfigFileSetsAll
    /\ cachedConfig = NullConfig
    /\ cfgOut = [fn |-> "none"]
    /\ cfgReads = <<>>
    /\ cfgOps = 0
    /\ cfgFirst = NullConfig

ConfigNext ==
    \/ \E configPath \in {"undefined", CustomConfigPath, OutsideConfigPath} :
          LoadConfig(configPath)
    \/ \E config \in SaveInputs, configPath \in {"undefined", CustomConfigPath},
          ioOk \in BOOLEAN : SaveConfig(config, configPath, ioOk)
    \/ ClearConfigCache

SpecConfig == ConfigInit /\ [][ConfigNext]_vars

(***************************************************************************)
(* loadConfig on one config file with arbitrary contents                   *)
(***************************************************************************)

\* the most keys of the object in the config file
MaxKeys == 2

\* more path entries than validatePaths keeps, the first outside the
\* allowed directories
LongPathList ==
    JArr([i \in 1..(maxExtraPaths + 1) |-> IF i = 1 THEN JStr("/etc") ELSE JStr("/Users")])

\* the values each key of the config file may have
FieldChoices ==
    UNION {{<<k, v>> :
                v \in {JNum(CONFIG_CONSTRAINTS[k].min), JNum(CONFIG_CONSTRAINTS[k].max),
                       JNum(CONFIG_CONSTRAINTS[k].min - 1), JNum(CONFIG_CONSTRAINTS[k].max + 1),
                       JFrac, JStr(" 8"), JStr("x"), JBool(TRUE), JNull}}
           : k \in {"downloadsDaysOld", "backupRetentionDays", "concurrency"}}
    \cup {<<"largeFilesMinSize", v>> :
                v \in {JNum(CONFIG_CONSTRAINTS["largeFilesMinSize"].min),
                       JNum(CONFIG_CONSTRAINTS["largeFilesMinSize"].max),
                       JNum(CONFIG_CONSTRAINTS["largeFilesMinSize"].min - 1),
                       JNum(CONFIG_CONSTRAINTS["largeFilesMinSize"].max + 1),
                       JFrac, JStr("x"), JNull}}
    \cup {<<"backupEnabled", v>> : v \in {JBool(TRUE), JStr("false")}}
    \cup {<<"parallelScans", v>> : v \in {JBool(FALSE)}}
    \cup {<<"defaultCategories", v>> :
                v \in {JArr(<<JStr("trash"), JStr("bogus"), JStr("docker")>>),
                       JArr(<<JStr("docker"), JNum(1), JStr("trash"), JStr("docker")>>),
                       JStr("trash")}}
    \cup {<<"excludeCategories", v>> :
                v \in {JArr(<<JStr("invalid-category")>>),
                       JArr(<<JStr("homebrew"), JStr("Trash"), JStr("system-cache")>>)}}
    \cup {<<"extraPaths", v>> :
                v \in {JNull, JStr("x"), JArr(<<>>),
                       JObj("nodeModules" :>
                              JArr(<<JStr("~/Projects"), JStr("/etc/passwd"), JStr("/Users/../etc"),
                                     JNum(1), JStr("/Volumes/v/../w"), JStr("/Users2/x"),
                                     JStr("~/../../tmp"), JStr("rel")>>)),
                       JObj(("nodeModules" :> LongPathList)
                            @@ ("projects" :> JArr(<<JStr("/Users"), JStr("/System")>>))),
                       JObj("projects" :> JStr("/etc"))}}

\* the fields a file may have next to the first one
SideChoices ==
    {<<"extraPaths", JNull>>,
     <<"downloadsDaysOld", JNum(45)>>,
     <<"concurrency", JNum(100)>>,
     <<"defaultCategories", JArr(<<JStr("trash"), JStr("bogus"), JStr("docker")>>)>>}

\* the objects with at most n keys: one field of FieldChoices and the
\* others of SideChoices
RECURSIVE ConfigObjects(_)
ConfigObjects(n) ==
    IF n = 0 THEN {NoKeys}
    ELSE Only({O \cup {(c[1] :> c[2]) @@ o : o \in {x \in O : Cardinality(DOMAIN x) = n - 1},
                                             c \in IF n = 1 THEN FieldChoices ELSE SideChoices}
               : O \in {ConfigObjects(n - 1)}})

\* what JSON.parse may give for the config file
ConfigContents ==
    {JObj(o) : o \in ConfigObjects(MaxKeys)} \cup {JNull, JNum(5), JArr(<<JNum(1)>>), JStr("x")}

ConfigFileInit ==
    /\ PathIdle
    /\ RmIdle
    /\ BkIdle
    /\ RiIdle
    /\ BiIdle
    /\ ScIdle
    /\ ExtraIdle
    /\ fs = EmptyFs
    /\ \E parsed \in ConfigContents : cfgFiles = (CONFIG_PATHS[1] :> TextFile(100, parsed))
    /\ cachedConfig = NullConfig
    /\ cfgOut = [fn |-> "none"]
    /\ cfgReads = <<>>
    /\ cfgOps = 0
    /\ cfgFirst = NullConfig

\* one loadConfig call, with or without the path of the file
ConfigFileNext ==
    \E configPath \in {"undefined", CONFIG_PATHS[1]} : cfgOps = 0 /\ LoadConfig(configPath)

SpecConfigFile == ConfigFileInit /\ [][ConfigFileNext]_vars

(***************************************************************************)
(* utils/fs.ts: removeItem, with a concurrent process changing the         *)
(* entries of the home directory between its filesystem calls              *)
(***************************************************************************)

\* the most removeItem calls in one run
MaxCalls == 2

\* the most changes the concurrent process makes in one run
MaxSwaps == 2

InitialFs ==
    [q \in {"/", "/usr", "/usr/x", "/tmp", "/tmp/f", "/Users", "/Users/u", "/Users/u/w",
            "/Users/u/d", "/Users/u/d/x", "/Users/u/t"} |->
        CASE q = "/usr/x"       -> File("system")
          [] q = "/tmp/f"       -> File("temp")
          [] q = "/Users/u/d/x" -> File("nested")
          [] q = "/Users/u/t"   -> File("important content")
          [] OTHER              -> Dir]

\* the paths removeItem is called with
RemoveInputs ==
    {"/", Home \o "/", "/usr/x", "/tmp/f", "/Users/u/d", "/Users/u/d/x", "/Users/u/t",
     "/Users/u/missing", "/Users/u/d/../t", "../t"}

\* the entries the concurrent process replaces, and what it puts there
SwapPoints == {"/Users/u/d"}

SwapShapes == {File("swapped"), Dir, Link("/Users/u/t"), Link("/usr")}

\* the filesystem with the entry at the real path p replaced by e; a
\* directory comes with one file in it
Replaced(fsys, p, e) ==
    LET rest == Without(fsys, Subtree(fsys, p))
        new  == IF e.kind = "dir" THEN {p, Child(p, "x")} ELSE {p}
    IN  [q \in DOMAIN rest \cup new |->
            IF q = p THEN e
            ELSE IF q \in new THEN File("nested")
            ELSE rest[q]]

\* the symbolic-link target at the path now, if the entry there is one
LinkAt(fsys, p) ==
    LET loc == Locate(fsys, p)
    IN  IF ~IsError(loc) /\ loc \in DOMAIN fsys /\ fsys[loc].kind = "link"
            THEN {fsys[loc].data}
        ELSE {}

RemoveInit ==
    /\ PathIdle
    /\ BkIdle
    /\ RmIdle
    /\ RiIdle
    /\ OtherIdle
    /\ fs = InitialFs

\* removeItem that validates nothing
RemoveItemCallUnvalidated(path, dryRun) ==
    /\ rmPc = "idle"
    /\ rmCalls < MaxCalls
    /\ rmCalls' = rmCalls + 1
    /\ rmPath' = path
    /\ rmDry' = dryRun
    /\ rmBefore' = fs
    /\ rmGone' = {}
    /\ rmLinks' = {}
    /\ rmIsLink' = FALSE
    /\ IF dryRun
          THEN rmPc' = "done" /\ rmResult' = "true" /\ rmOps' = <<>>
          ELSE rmPc' = "lstat" /\ rmResult' = "none"
               /\ rmOps' = <<"validate:" \o validatePathSafety(path)>>
    /\ UNCHANGED <<otherVars, fs, swaps, pathVars, bkVars, rsVars>>

\* removeItem that does not look at dryRun
RemoveItemCallNoDryRun(path, dryRun) ==
    /\ rmPc = "idle"
    /\ rmCalls < MaxCalls
    /\ rmCalls' = rmCalls + 1
    /\ rmPath' = path
    /\ rmDry' = dryRun
    /\ rmBefore' = fs
    /\ rmGone' = {}
    /\ rmLinks' = {}
    /\ rmIsLink' = FALSE
    /\ LET safetyError == validatePathSafety(path)
       IN  /\ rmOps' = <<"validate:" \o safetyError>>
           /\ IF safetyError # "null"
                 THEN rmPc' = "done" /\ rmResult' = "false"
                 ELSE rmPc' = "lstat" /\ rmResult' = "none"
    /\ UNCHANGED <<otherVars, fs, swaps, pathVars, bkVars, rsVars>>

\* removeItem up to its first await: the dry-run return, the safety check
RemoveItemCall(path, dryRun) ==
    /\ rmPc = "idle"
    /\ rmCalls < MaxCalls
    /\ rmCalls' = rmCalls + 1
    /\ rmPath' = path
    /\ rmDry' = dryRun
    /\ rmBefore' = fs
    /\ rmGone' = {}
    /\ rmLinks' = {}
    /\ rmIsLink' = FALSE
    /\ IF dryRun
          THEN rmPc' = "done" /\ rmResult' = "true" /\ rmOps' = <<>>
          ELSE LET safetyError == validatePathSafety(path)
               IN  /\ rmOps' = <<"validate:" \o safetyError>>
                   /\ IF safetyError # "null"
                         THEN rmPc' = "done" /\ rmResult' = "false"
                         ELSE rmPc' = "lstat" /\ rmResult' = "none"
    /\ UNCHANGED <<otherVars, fs, swaps, pathVars, bkVars, rsVars>>

\* const stats = await lstat(path); ioOk is false when the call fails for
\* a reason outside the model (EACCES, EIO)
RemoveItemLstat(ioOk) ==
    /\ rmPc = "lstat"
    /\ rmOps' = Append(rmOps, "lstat")
    /\ LET kind == Lstat(fs, rmPath)
       IN  IF ~ioOk \/ IsError(kind)
              THEN rmPc' = "done" /\ rmResult' = "false" /\ UNCHANGED <<rmIsLink, rmLinks>>
              ELSE /\ rmPc' = "remove"
                   /\ rmIsLink' = (kind = "link")
                   /\ rmLinks' = rmLinks \cup LinkAt(fs, rmPath)
                   /\ UNCHANGED rmResult
    /\ UNCHANGED <<otherVars, fs, rmPath, rmDry, rmBefore, rmGone, rmCalls, swaps, pathVars, bkVars, rsVars>>

\* removeItem deleting what the path resolves to, symbolic links followed
RemoveItemRemoveFollowing(ioOk) ==
    /\ rmPc = "remove"
    /\ rmPc' = "done"
    /\ rmOps' = Append(rmOps, "rm")
    /\ rmLinks' = rmLinks \cup LinkAt(fs, rmPath)
    /\ LET r == Rm(fs, IF LinkAt(fs, rmPath) = {} THEN rmPath
                       ELSE CHOOSE t \in LinkAt(fs, rmPath) : TRUE)
       IN  IF ~ioOk \/ r.err # ""
              THEN rmResult' = "false" /\ UNCHANGED <<fs, rmGone>>
              ELSE /\ rmResult' = "true"
                   /\ fs' = Without(fs, r.gone)
                   /\ rmGone' = rmGone \cup r.gone
    /\ UNCHANGED <<otherVars, rmPath, rmDry, rmIsLink, rmBefore, rmCalls, swaps, pathVars, bkVars, rsVars>>

\* await unlink(path) for a symbolic link, await rm(path, ...) otherwise
RemoveItemRemove(ioOk) ==
    /\ rmPc = "remove"
    /\ rmPc' = "done"
    /\ rmOps' = Append(rmOps, IF rmIsLink THEN "unlink" ELSE "rm")
    /\ rmLinks' = rmLinks \cup LinkAt(fs, rmPath)
    /\ LET r == IF rmIsLink THEN Unlink(fs, rmPath) ELSE Rm(fs, rmPath)
       IN  IF ~ioOk \/ r.err # ""
              THEN rmResult' = "false" /\ UNCHANGED <<fs, rmGone>>
              ELSE /\ rmResult' = "true"
                   /\ fs' = Without(fs, r.gone)
                   /\ rmGone' = rmGone \cup r.gone
    /\ UNCHANGED <<otherVars, rmPath, rmDry, rmIsLink, rmBefore, rmCalls, swaps, pathVars, bkVars, rsVars>>

\* the caller takes the result; nothing of the call is kept
RemoveItemReturn ==
    /\ rmPc = "done"
    /\ rmPc' = "idle"
    /\ rmPath' = "/"
    /\ rmDry' = FALSE
    /\ rmIsLink' = FALSE
    /\ rmResult' = "none"
    /\ rmOps' = <<>>
    /\ rmBefore' = EmptyFs
    /\ rmGone' = {}
    /\ rmLinks' = {}
    /\ UNCHANGED <<otherVars, fs, rmCalls, swaps, pathVars, bkVars, rsVars>>

\* another process replaces an entry of the home directory
ConcurrentSwap(p, e) ==
    /\ swaps < MaxSwaps
    /\ swaps' = swaps + 1
    /\ Dirname(p) \in DOMAIN fs
    /\ fs' = Replaced(fs, p, e)
    /\ UNCHANGED <<otherVars, rmPc, rmPath, rmDry, rmIsLink, rmResult, rmOps, rmBefore, rmGone,
                   rmLinks, rmCalls, pathVars, bkVars, rsVars>>

\* removeItem called on its own, outside removeItems
RemoveNext ==
    \/ \E path \in RemoveInputs, dryRun \in BOOLEAN :
          RemoveItemCall(path, dryRun) /\ UNCHANGED riVars
    \/ \E ioOk \in BOOLEAN : RemoveItemLstat(ioOk) /\ UNCHANGED riVars
    \/ \E ioOk \in BOOLEAN : RemoveItemRemove(ioOk) /\ UNCHANGED riVars
    \/ RemoveItemReturn /\ UNCHANGED riVars
    \/ \E p \in SwapPoints, e \in SwapShapes : ConcurrentSwap(p, e) /\ UNCHANGED riVars

SpecRemove == RemoveInit /\ [][RemoveNext]_vars

(***************************************************************************)
(* utils/fs.ts: removeItems                                                *)
(***************************************************************************)

\* the items removeItems is called with: a path and a size
RemoveItemChoices ==
    {[path |-> "/Users/u/d", size |-> 4], [path |-> "/usr/x", size |-> 2],
     [path |-> "/Users/u/missing", size |-> 1], [path |-> "/Users/u/t", size |-> 8]}

\* the lists of at most n items
RECURSIVE ItemLists(_, _)
ItemLists(choices, n) ==
    IF n = 0 THEN {<<>>}
    ELSE Only({L \cup {Append(l, c) : l \in {x \in L : Len(x) = n - 1}, c \in choices}
               : L \in {ItemLists(choices, n - 1)}})

RemoveItemsInit ==
    /\ PathIdle
    /\ BkIdle
    /\ RmIdle
    /\ RiIdle
    /\ OtherIdle
    /\ fs = InitialFs

\* removeItems(items, dryRun, onProgress) up to the test of its loop
RemoveItemsCall(items, dryRun) ==
    /\ riPc = "idle"
    /\ rmPc = "idle"
    /\ riPc' = "loop"
    /\ riItems' = items
    /\ riDry' = dryRun
    /\ riIdx' = 0
    /\ riSuccess' = 0
    /\ riFailed' = 0
    /\ riFreed' = 0
    /\ riLog' = <<>>
    /\ UNCHANGED <<otherVars, fs, rmVars, pathVars, bkVars, rsVars>>

\* the loop body with the callback after the call of removeItem
RemoveItemsStepCallFirst ==
    /\ riPc = "loop"
    /\ riIdx < Len(riItems)
    /\ riPc' = "await"
    /\ riIdx' = riIdx + 1
    /\ \E item \in {riItems[riIdx + 1]} :
          /\ riLog' = riLog \o <<<<"removeItem", riIdx + 1>>,
                                 <<"onProgress", riIdx + 1, Len(riItems), item>>>>
          /\ RemoveItemCall(item.path, riDry)
    /\ UNCHANGED <<riItems, riDry, riSuccess, riFailed, riFreed>>

\* i < items.length; onProgress?.(i + 1, items.length, item); then
\* removeItem(item.path, dryRun) up to its first await
RemoveItemsStep ==
    /\ riPc = "loop"
    /\ riIdx < Len(riItems)
    /\ riPc' = "await"
    /\ riIdx' = riIdx + 1
    /\ \E item \in {riItems[riIdx + 1]} :
          /\ riLog' = riLog \o <<<<"onProgress", riIdx + 1, Len(riItems), item>>,
                                 <<"removeItem", riIdx + 1>>>>
          /\ RemoveItemCall(item.path, riDry)
    /\ UNCHANGED <<riItems, riDry, riSuccess, riFailed, riFreed>>

\* const removed = await removeItem(...) when the call has returned, and
\* the counting that follows
RemoveItemsResume ==
    /\ riPc = "await"
    /\ rmPc = "done"
    /\ riPc' = "loop"
    /\ riLog' = Append(riLog, <<"removed", riIdx, rmResult = "true">>)
    /\ IF rmResult = "true"
          THEN /\ riSuccess' = riSuccess + 1
               /\ riFreed' = riFreed + riItems[riIdx].size
               /\ UNCHANGED riFailed
          ELSE /\ riFailed' = riFailed + 1
               /\ UNCHANGED <<riSuccess, riFreed>>
    /\ RemoveItemReturn
    /\ UNCHANGED <<riItems, riDry, riIdx>>

\* return { success, failed, freedSpace }
RemoveItemsReturn ==
    /\ riPc = "loop"
    /\ riIdx = Len(riItems)
    /\ riPc' = "done"
    /\ UNCHANGED <<riItems, riDry, riIdx, riSuccess, riFailed, riFreed, riLog>>
    /\ UNCHANGED <<otherVars, fs, rmVars, pathVars, bkVars, rsVars>>

RemoveItemsNext ==
    \/ \E items \in ItemLists(RemoveItemChoices, MaxCalls), dryRun \in BOOLEAN :
          RemoveItemsCall(items, dryRun)
    \/ RemoveItemsStep
    \/ \E ioOk \in BOOLEAN : RemoveItemLstat(ioOk) /\ UNCHANGED riVars
    \/ \E ioOk \in BOOLEAN : RemoveItemRemove(ioOk) /\ UNCHANGED riVars
    \/ RemoveItemsResume
    \/ RemoveItemsReturn
    \/ \E p \in SwapPoints, e \in SwapShapes : ConcurrentSwap(p, e) /\ UNCHANGED riVars

SpecRemoveItems == RemoveItemsInit /\ [][RemoveItemsNext]_vars

(***************************************************************************)
(* utils/backup.ts: backupItem and restoreBackup                           *)
(***************************************************************************)

BACKUP_DIR == Join(Join(Home, ".mac-cleaner-cli"), "backup")

\* the session directory the backups of a run go to
Session == Join(BACKUP_DIR, "s1")

\* a directory beside the backup root whose name starts with its name
SiblingDir == BACKUP_DIR \o "-evil"

BackupFs ==
    [q \in {"/", "/tmp", "/tmp/f", "/tmp/inv", "/tmp/inv/HOME", "/tmp/inv/HOME/q",
            "/Users", "/Users/u", "/Users/u/a", "/Users/u/n..m", "/Users/u/w", "/Users/u/w/k",
            Join(Home, ".mac-cleaner-cli"), BACKUP_DIR, Session,
            SiblingDir, Join(SiblingDir, "HOME"), Join(SiblingDir, "HOME/p")} |->
        CASE q = "/tmp/f"                     -> File("temp")
          [] q = "/tmp/inv/HOME/q"            -> File("malicious content")
          [] q = "/Users/u/a"                 -> File("alpha")
          [] q = "/Users/u/n..m"              -> File("dots")
          [] q = "/Users/u/w/k"               -> File("kappa")
          [] q = Join(SiblingDir, "HOME/p")   -> File("planted")
          [] OTHER                            -> Dir]

\* the items backupItem is called with (CleanableItem.path)
BackupItemPaths ==
    {"/Users/u/a", "/Users/u/n..m", "/tmp/f", "/Users/u/missing", "/tmp/../../tmp/f"}

\* what the session directory may hold that backupItem did not put there:
\* a file called HOME, a file that meets a directory at its original place,
\* an unreadable directory with a file in it
PlantChoices ==
    {[rel |-> "HOME", entry |-> File("home"), child |-> ""],
     [rel |-> "HOME/w", entry |-> File("clash"), child |-> ""],
     [rel |-> "locked", entry |-> UnreadableDir, child |-> "z"]}

\* the directories restoreBackup is called with
RestoreInputs ==
    {Session \o "/", BACKUP_DIR, Session \o "/../../backup-evil", "/tmp/inv"}

\* validateRestorePath without the test for ".."
validateRestorePathNoPattern(targetPath) ==
    LET resolved == Resolve(targetPath)
    IN  IF ~StartsWith(resolved, Home \o "/") /\ resolved # Home THEN "Path traversal detected"
        ELSE "null"

validateRestorePath(targetPath) ==
    LET resolved == Resolve(targetPath)
    IN  IF ~StartsWith(resolved, Home \o "/") /\ resolved # Home THEN "Path traversal detected"
        ELSE IF Includes(targetPath, "..") THEN "Suspicious path pattern detected"
        ELSE "null"

\* restoreDir: where the entry with this path relative to the session goes
RestoreTarget(relFromBackup) ==
    IF StartsWith(relFromBackup, "HOME/")
        THEN [kind |-> "target", path |-> Join(Home, Slice(relFromBackup, 5))]
    ELSE IF relFromBackup = "HOME" THEN [kind |-> "skip", path |-> ""]
    ELSE [kind |-> "outside", path |-> ""]

BackupInit ==
    /\ PathIdle
    /\ RmIdle
    /\ BkIdle
    /\ RiIdle
    /\ OtherIdle
    /\ fs = BackupFs

\* mkdir(dirname(to), { recursive: true }) and then rename(from, to)
MkdirRename(fsys, from, to) ==
    Only({IF made.err = "" THEN Rename(made.fs, from, to) ELSE made
          : made \in {MkdirP(fsys, Dirname(to))}})

\* backupItem(item, Session)
BackupItem(path) ==
    /\ bkPc = "idle"
    /\ path \notin bkTried
    /\ bkTried' = bkTried \cup {path}
    /\ \E backupPath \in {Join(Session, ReplaceFirst(path, Home, "HOME"))} :
       \E moved \in {MkdirRename(fs, path, backupPath)} :
           /\ fs' = moved.fs
           /\ bkBacked' =
                 IF moved.err = "" /\ Lstat(fs, path) = "file"
                     THEN bkBacked \cup {[path |-> path, content |-> fs[Locate(fs, path)].data,
                                          backupPath |-> backupPath]}
                 ELSE bkBacked
    /\ UNCHANGED <<otherVars, riVars, bkPc, planted, pathVars, rmVars, rsVars>>

\* somebody else puts an entry into the session directory
PlantEntry(c) ==
    /\ bkPc = "idle"
    /\ c \notin planted
    /\ \E at \in {Join(Session, c.rel)} :
       \E made \in {MkdirP(fs, Dirname(at))} :
           /\ made.err = ""
           /\ at \notin DOMAIN made.fs
           /\ LET new == IF c.child = "" THEN {at} ELSE {at, Child(at, c.child)}
              IN  fs' = [q \in DOMAIN made.fs \cup new |->
                            IF q = at THEN c.entry
                            ELSE IF q \in new THEN File("hidden")
                            ELSE made.fs[q]]
    /\ planted' = planted \cup {c}
    /\ UNCHANGED <<otherVars, riVars, bkPc, bkTried, bkBacked, pathVars, rmVars, rsVars>>

\* restoreBackup up to the first readdir: the check of the directory
RestoreBackupCall(backupDir) ==
    /\ bkPc = "idle"
    /\ rsArg' = backupDir
    /\ rsStart' = fs
    /\ rsLog' = {}
    /\ rsHandled' = 0
    /\ rsSuccess' = 0
    /\ \E resolvedBackupDir \in {Resolve(backupDir)} :
           /\ rsDir' = resolvedBackupDir
           /\ IF ~StartsWith(resolvedBackupDir, BACKUP_DIR)
                 THEN /\ bkPc' = "done"
                      /\ rsFailed' = 1
                      /\ rsErrors' = <<"Invalid backup directory">>
                      /\ rsStack' = <<>>
                 ELSE /\ bkPc' = "restoring"
                      /\ rsFailed' = 0
                      /\ rsErrors' = <<>>
                      /\ rsStack' = <<[dir |-> resolvedBackupDir, read |-> FALSE, rest |-> {}]>>
    /\ UNCHANGED <<otherVars, riVars, fs, bkTried, bkBacked, planted, pathVars, rmVars>>

Top == rsStack[Len(rsStack)]

Popped == SubSeq(rsStack, 1, Len(rsStack) - 1)

WithTop(frame) == [rsStack EXCEPT ![Len(rsStack)] = frame]

\* restoreDir giving up the whole restore at a directory it cannot read
RestoreReaddirAborting ==
    /\ bkPc = "restoring"
    /\ ~Top.read
    /\ \E listing \in {Readdir(fs, Top.dir)} :
           IF listing.err # ""
              THEN /\ rsErrors' = Append(rsErrors, "Failed to read directory")
                   /\ rsFailed' = rsFailed + 1
                   /\ rsStack' = <<>>
                   /\ bkPc' = "done"
              ELSE /\ rsStack' = WithTop([Top EXCEPT !.read = TRUE, !.rest = listing.entries])
                   /\ UNCHANGED <<rsErrors, rsFailed, bkPc>>
    /\ UNCHANGED <<otherVars, riVars, fs, rsArg, rsDir, rsSuccess, rsLog, rsHandled, rsStart, bkTried, bkBacked,
                   planted, pathVars, rmVars>>

\* restoreDir: entries = await readdir(dir, { withFileTypes: true })
RestoreReaddir ==
    /\ bkPc = "restoring"
    /\ ~Top.read
    /\ \E listing \in {Readdir(fs, Top.dir)} :
           IF listing.err # ""
              THEN /\ rsErrors' = Append(rsErrors, "Failed to read directory")
                   /\ rsFailed' = rsFailed + 1
                   /\ rsStack' = Popped
                   /\ bkPc' = IF Popped = <<>> THEN "done" ELSE "restoring"
              ELSE /\ rsStack' = WithTop([Top EXCEPT !.read = TRUE, !.rest = listing.entries])
                   /\ UNCHANGED <<rsErrors, rsFailed, bkPc>>
    /\ UNCHANGED <<otherVars, riVars, fs, rsArg, rsDir, rsSuccess, rsLog, rsHandled, rsStart, bkTried, bkBacked,
                   planted, pathVars, rmVars>>

\* restoreDir: one round of the loop over the entries
RestoreEntry(entry) ==
    /\ bkPc = "restoring"
    /\ Top.read
    /\ entry \in Top.rest
    /\ \E entryPath \in {Join(Top.dir, entry.name)} :
       \E frame \in {[Top EXCEPT !.rest = Top.rest \ {entry}]} :
          IF entry.isDir
              THEN /\ rsStack' = Append(WithTop(frame), [dir |-> entryPath, read |-> FALSE, rest |-> {}])
                   /\ UNCHANGED <<fs, rsSuccess, rsFailed, rsErrors, rsLog, rsHandled>>
              ELSE \E relFromBackup \in {Relative(rsDir, entryPath)} :
                   \E to \in {RestoreTarget(relFromBackup)} :
                   \E pathError \in {validateRestorePath(to.path)} :
                   \E moved \in {IF to.kind = "target" /\ pathError = "null"
                                     THEN MkdirRename(fs, entryPath, to.path)
                                 ELSE [err |-> "", fs |-> fs]} :
                   LET note(outcome) == rsLog \cup {[entry |-> entryPath, rel |-> relFromBackup,
                                                     target |-> to.path, outcome |-> outcome]}
                   IN  /\ rsStack' = WithTop(frame)
                       /\ rsHandled' = rsHandled + 1
                       /\ IF to.kind = "skip"
                             THEN /\ rsLog' = note("skipped")
                                  /\ UNCHANGED <<fs, rsSuccess, rsFailed, rsErrors>>
                          ELSE IF to.kind = "outside"
                             THEN /\ rsLog' = note("outside")
                                  /\ rsErrors' = Append(rsErrors, "Skipping file outside HOME structure")
                                  /\ rsFailed' = rsFailed + 1
                                  /\ UNCHANGED <<fs, rsSuccess>>
                          ELSE IF pathError # "null"
                             THEN /\ rsLog' = note("invalid")
                                  /\ rsErrors' = Append(rsErrors, pathError)
                                  /\ rsFailed' = rsFailed + 1
                                  /\ UNCHANGED <<fs, rsSuccess>>
                          ELSE IF moved.err # ""
                             THEN /\ rsLog' = note("ioerror")
                                  /\ rsErrors' = Append(rsErrors, "Failed to restore")
                                  /\ rsFailed' = rsFailed + 1
                                  /\ fs' = moved.fs
                                  /\ UNCHANGED rsSuccess
                          ELSE /\ rsLog' = note("moved")
                               /\ rsSuccess' = rsSuccess + 1
                               /\ fs' = moved.fs
                               /\ UNCHANGED <<rsFailed, rsErrors>>
    /\ UNCHANGED <<otherVars, riVars, bkPc, rsArg, rsDir, rsStart, bkTried, bkBacked, planted, pathVars, rmVars>>

\* restoreDir: the loop is over; the outermost call returns to restoreBackup
RestoreDirReturn ==
    /\ bkPc = "restoring"
    /\ Top.read
    /\ Top.rest = {}
    /\ rsStack' = Popped
    /\ bkPc' = IF Popped = <<>> THEN "done" ELSE "restoring"
    /\ UNCHANGED <<otherVars, riVars, fs, rsArg, rsDir, rsSuccess, rsFailed, rsErrors, rsLog, rsHandled, rsStart,
                   bkTried, bkBacked, planted, pathVars, rmVars>>

BackupNext ==
    \/ \E path \in BackupItemPaths : BackupItem(path)
    \/ \E c \in PlantChoices : PlantEntry(c)
    \/ \E backupDir \in RestoreInputs : RestoreBackupCall(backupDir)
    \/ RestoreReaddir
    \/ \E entry \in UNION {f.rest : f \in {rsStack[i] : i \in DOMAIN rsStack}} : RestoreEntry(entry)
    \/ RestoreDirReturn

SpecBackup == BackupInit /\ [][BackupNext]_vars

(***************************************************************************)
(* utils/backup.ts: ensureBackupDir and backupItems                        *)
(***************************************************************************)

\* the most items of one backupItems call
MaxBackupItems == 2

\* the items backupItems is called with
BackupItemChoices == {[path |-> p, size |-> 1] : p \in BackupItemPaths}

\* the filesystem the backup starts on: ~/.mac-cleaner-cli is a directory
\* with the backup root in it, or a file
BackupStarts == {BackupFs, Replaced(BackupFs, Join(Home, ".mac-cleaner-cli"), File("notes"))}

BackupItemsInit ==
    /\ PathIdle
    /\ RmIdle
    /\ BkIdle
    /\ RiIdle
    /\ CfgIdle
    /\ BiIdle
    /\ ScIdle
    /\ ExtraIdle
    /\ fs \in BackupStarts

\* backupItems(items, onProgress) up to the test of its loop: the await of
\* ensureBackupDir(), whose mkdir is in no try block; ioOk is false when
\* mkdir fails for a reason outside the model (EACCES, ENOSPC)
BackupItemsCall(items, ioOk) ==
    /\ biPc = "idle"
    /\ biItems' = items
    /\ biIdx' = 0
    /\ biSuccess' = 0
    /\ biFailed' = 0
    /\ biLog' = <<>>
    /\ \E made \in {MkdirP(fs, Session)} :
          IF ioOk /\ made.err = ""
             THEN biPc' = "loop" /\ fs' = made.fs
             ELSE biPc' = "threw" /\ UNCHANGED fs
    /\ UNCHANGED <<cfgVars, scVars, riVars, pathVars, rmVars, bkVars, rsVars, extraVars>>

\* i < items.length; onProgress?.(i + 1, items.length, item); const backed
\* = await backupItem(item, backupDir); success++ or failed++
BackupItemsStep(ioOk) ==
    /\ biPc = "loop"
    /\ biIdx < Len(biItems)
    /\ biIdx' = biIdx + 1
    /\ \E item \in {biItems[biIdx + 1]} :
       \E backupPath \in {Join(Session, ReplaceFirst(item.path, Home, "HOME"))} :
       \E moved \in {IF ioOk THEN MkdirRename(fs, item.path, backupPath)
                     ELSE [err |-> "!EIO", fs |-> fs]} :
           /\ fs' = moved.fs
           /\ biLog' = biLog \o <<<<"onProgress", biIdx + 1, Len(biItems), item>>,
                                  <<"backed", biIdx + 1, moved.err = "",
                                    item.path \in DOMAIN fs =>
                                        item.path \in DOMAIN moved.fs
                                        /\ moved.fs[item.path] = fs[item.path]>>>>
           /\ IF moved.err = ""
                 THEN biSuccess' = biSuccess + 1 /\ UNCHANGED biFailed
                 ELSE biFailed' = biFailed + 1 /\ UNCHANGED biSuccess
    /\ UNCHANGED <<biPc, biItems>>
    /\ UNCHANGED <<cfgVars, scVars, riVars, pathVars, rmVars, bkVars, rsVars, extraVars>>

\* return { backupDir, success, failed }
BackupItemsReturn ==
    /\ biPc = "loop"
    /\ biIdx = Len(biItems)
    /\ biPc' = "done"
    /\ UNCHANGED <<biItems, biIdx, biSuccess, biFailed, biLog>>
    /\ UNCHANGED <<fs, cfgVars, scVars, riVars, pathVars, rmVars, bkVars, rsVars, extraVars>>

BackupItemsNext ==
    \/ \E items \in ItemLists(BackupItemChoices, MaxBackupItems), ioOk \in BOOLEAN :
          BackupItemsCall(items, ioOk)
    \/ \E ioOk \in BOOLEAN : BackupItemsStep(ioOk)
    \/ BackupItemsReturn

SpecBackupItems == BackupItemsInit /\ [][BackupItemsNext]_vars

(***************************************************************************)
(* commands/clean.ts and commands/uninstall.ts: cleanCommand and           *)
(* uninstallCommand                                                        *)
(***************************************************************************)

\* one entry of cmLog: a prompt and its answer, or a removal step with the
\* category and the paths it was invoked on
Ev(ev, ok, id, paths) == [ev |-> ev, ok |-> ok, id |-> id, paths |-> paths]

\* the results a scan may return: a safe category, a risky one, one whose
\* items are picked one by one, and one with no items
ScanResultChoices ==
    <<[category |-> [id |-> "system-cache", safetyLevel |-> "safe"],
       items |-> <<[path |-> "/Users/u/Library/Caches/a", size |-> 2],
                   [path |-> "/Users/u/Library/Caches/b", size |-> 1]>>],
      [category |-> [id |-> "downloads", safetyLevel |-> "risky"],
       items |-> <<[path |-> "/Users/u/Downloads/c", size |-> 3]>>],
      [category |-> [id |-> "large-files", safetyLevel |-> "moderate"],
       items |-> <<[path |-> "/Users/u/d", size |-> 4], [path |-> "/Users/u/e", size |-> 5]>>],
      [category |-> [id |-> "trash", safetyLevel |-> "safe"], items |-> <<>>]>>

\* the elements of seq whose index is in keep, in order
RECURSIVE Kept(_, _, _)
Kept(seq, keep, i) ==
    IF i > Len(seq) THEN <<>>
    ELSE (IF i \in keep THEN <<seq[i]>> ELSE <<>>) \o Kept(seq, keep, i + 1)

\* the summaries runAllScans may return
ScanSummaries == {Kept(ScanResultChoices, keep, 1) : keep \in SUBSET DOMAIN ScanResultChoices}

RECURSIVE ItemsSize(_)
ItemsSize(items) == IF items = <<>> THEN 0 ELSE Head(items).size + ItemsSize(Tail(items))

\* summary.totalSize
RECURSIVE TotalSize(_)
TotalSize(results) ==
    IF results = <<>> THEN 0 ELSE ItemsSize(Head(results).items) + TotalSize(Tail(results))

\* the options of a command
CommandOptions == [all : BOOLEAN, yes : BOOLEAN, dryRun : BOOLEAN, unsafe : BOOLEAN]

\* resultsWithItems as the risky categories were never skipped
SkipRiskyNever(results, unsafe) ==
    SelectSeq(results, LAMBDA r : Len(r.items) > 0)

\* resultsWithItems of cleanCommand: the results with items, without those
\* of a risky category unless unsafe is set
SkipRisky(results, unsafe) ==
    Only({IF ~unsafe /\ SelectSeq(resultsWithItems,
                                  LAMBDA r : r.category.safetyLevel = "risky") # <<>>
             THEN SelectSeq(resultsWithItems, LAMBDA r : r.category.safetyLevel # "risky")
             ELSE resultsWithItems
          : resultsWithItems \in {SelectSeq(results, LAMBDA r : Len(r.items) > 0)}})

\* where a command goes on as the prompt was never shown
AfterSelectionUnasked(cmd, nothingSelected, options) ==
    IF nothingSelected THEN "done"
    ELSE IF options.dryRun THEN "done"
    ELSE "removing"

\* where a command goes on when the selection is made (nothingSelected:
\* selectedItems.length === 0, selectedApps.length === 0): it returns when
\* nothing is selected; uninstallCommand returns on dryRun before its
\* prompt, cleanCommand after the place of its prompt; the prompt is shown
\* unless yes (or, in cleanCommand, dryRun) is set
AfterSelection(cmd, nothingSelected, options) ==
    IF nothingSelected THEN "done"
    ELSE IF cmd = "uninstall" THEN
        IF options.dryRun THEN "done"
        ELSE IF ~options.yes THEN "confirm"
        ELSE "removing"
    ELSE IF ~options.yes /\ ~options.dryRun THEN "confirm"
    ELSE IF options.dryRun THEN "done"
    ELSE "removing"

\* selectItemsInteractively(results) with the answers of the user: the
\* categories ticked and, for a risky category, large-files and
\* ios-backups, the paths ticked
selectItemsInteractively(results, selectedCategories, selectedPaths) ==
    Only({SelectSeq([i \in DOMAIN selectedResults |->
                        IF \/ selectedResults[i].category.safetyLevel = "risky"
                           \/ selectedResults[i].category.id = "large-files"
                           \/ selectedResults[i].category.id = "ios-backups"
                           THEN [categoryId |-> selectedResults[i].category.id,
                                 items |-> SelectSeq(selectedResults[i].items,
                                                     LAMBDA it : it.path \in selectedPaths)]
                           ELSE [categoryId |-> selectedResults[i].category.id,
                                 items |-> selectedResults[i].items]],
                    LAMBDA sel : Len(sel.items) > 0)
          : selectedResults \in
                {SelectSeq(results, LAMBDA r : r.category.id \in selectedCategories)}})

CommandsInit ==
    /\ PathIdle
    /\ RmIdle
    /\ BkIdle
    /\ RiIdle
    /\ CfgIdle
    /\ BiIdle
    /\ ScIdle
    /\ CbIdle
    /\ EbIdle
    /\ DkIdle
    /\ CmIdle
    /\ fs = EmptyFs

\* cleanCommand(options) up to its first prompt, with the summary
\* runAllScans returned
CleanCommandCall(options, summary) ==
    /\ cmPc = "idle"
    /\ cmCmd' = "clean"
    /\ cmOpts' = options
    /\ cmIdx' = 0
    /\ cmLog' = <<>>
    /\ UNCHANGED cmApps
    /\ \E resultsWithItems \in {SkipRisky(summary, options.unsafe)} :
          /\ cmResults' = summary
          /\ IF TotalSize(summary) = 0 \/ resultsWithItems = <<>>
                THEN cmPc' = "done" /\ cmSelected' = <<>>
             ELSE IF options.all
                THEN \E selected \in {[i \in DOMAIN resultsWithItems |->
                                         [categoryId |-> resultsWithItems[i].category.id,
                                          items |-> resultsWithItems[i].items]]} :
                        /\ cmSelected' = selected
                        /\ cmPc' = AfterSelection("clean", selected = <<>>, options)
             ELSE cmPc' = "select" /\ cmSelected' = <<>>
    /\ UNCHANGED <<fs, cbVars, ebVars, dkVars, cfgVars, biVars, scVars, riVars, pathVars,
                   rmVars, bkVars, rsVars>>

\* the user answers the checkboxes of selectItemsInteractively
CleanCommandSelect(selectedCategories, selectedPaths) ==
    /\ cmCmd = "clean"
    /\ cmPc = "select"
    /\ \E selected \in {selectItemsInteractively(SkipRisky(cmResults, cmOpts.unsafe),
                                                  selectedCategories, selectedPaths)} :
          /\ cmSelected' = selected
          /\ cmPc' = AfterSelection("clean", selected = <<>>, cmOpts)
    /\ cmLog' = Append(cmLog, Ev("checkbox", TRUE, "", selectedPaths))
    /\ UNCHANGED <<cmCmd, cmOpts, cmResults, cmApps, cmIdx>>
    /\ UNCHANGED <<fs, cbVars, ebVars, dkVars, cfgVars, biVars, scVars, riVars, pathVars,
                   rmVars, bkVars, rsVars>>

\* the user answers confirm(): the command returns on false
CommandConfirm(proceed) ==
    /\ cmPc = "confirm"
    /\ cmLog' = Append(cmLog, Ev("confirm", proceed, "", {}))
    /\ cmPc' = IF ~proceed THEN "done"
               ELSE IF cmCmd = "clean" /\ cmOpts.dryRun THEN "done"
               ELSE "removing"
    /\ UNCHANGED <<cmCmd, cmOpts, cmResults, cmApps, cmSelected, cmIdx>>
    /\ UNCHANGED <<fs, cbVars, ebVars, dkVars, cfgVars, biVars, scVars, riVars, pathVars,
                   rmVars, bkVars, rsVars>>

\* one round of the loop of cleanCommand: scanner.clean(items,
\* options.dryRun) of the scanner of the category
CleanCommandStep ==
    /\ cmCmd = "clean"
    /\ cmPc = "removing"
    /\ cmIdx < Len(cmSelected)
    /\ cmIdx' = cmIdx + 1
    /\ \E sel \in {cmSelected[cmIdx + 1]} :
          cmLog' = Append(cmLog, Ev("clean", cmOpts.dryRun, sel.categoryId,
                                    {sel.items[i].path : i \in DOMAIN sel.items}))
    /\ UNCHANGED <<cmPc, cmCmd, cmOpts, cmResults, cmApps, cmSelected>>
    /\ UNCHANGED <<fs, cbVars, ebVars, dkVars, cfgVars, biVars, scVars, riVars, pathVars,
                   rmVars, bkVars, rsVars>>

\* the loop of a command is through: the results are printed
CommandReturn ==
    /\ cmPc = "removing"
    /\ cmIdx = Len(cmSelected)
    /\ cmPc' = "done"
    /\ UNCHANGED <<cmCmd, cmOpts, cmResults, cmApps, cmSelected, cmIdx, cmLog>>
    /\ UNCHANGED <<fs, cbVars, ebVars, dkVars, cfgVars, biVars, scVars, riVars, pathVars,
                   rmVars, bkVars, rsVars>>

\* the applications getInstalledApps may find
AppChoices ==
    <<[name |-> "A", path |-> "/Applications/A.app", size |-> 3,
       relatedPaths |-> <<"/Users/u/Library/Caches/A", "/Users/u/Library/Logs/A">>],
      [name |-> "B", path |-> "/Users/u/Applications/B.app", size |-> 2, relatedPaths |-> <<>>]>>

InstalledApps == {Kept(AppChoices, keep, 1) : keep \in SUBSET DOMAIN AppChoices}

\* uninstallCommand(options) up to its checkbox, with the applications
\* getInstalledApps returned
UninstallCommandCall(options, apps) ==
    /\ cmPc = "idle"
    /\ cmCmd' = "uninstall"
    /\ cmOpts' = options
    /\ cmApps' = apps
    /\ cmSelected' = <<>>
    /\ cmIdx' = 0
    /\ cmLog' = <<>>
    /\ cmPc' = IF apps = <<>> THEN "done" ELSE "select"
    /\ UNCHANGED cmResults
    /\ UNCHANGED <<fs, cbVars, ebVars, dkVars, cfgVars, biVars, scVars, riVars, pathVars,
                   rmVars, bkVars, rsVars>>

\* the user answers the checkbox of the applications
UninstallCommandSelect(selectedApps) ==
    /\ cmCmd = "uninstall"
    /\ cmPc = "select"
    /\ \E appsToRemove \in {SelectSeq(cmApps, LAMBDA a : a.name \in selectedApps)} :
          /\ cmSelected' = IF selectedApps = {} THEN <<>> ELSE appsToRemove
          /\ cmPc' = AfterSelection("uninstall", selectedApps = {}, cmOpts)
    /\ cmLog' = Append(cmLog, Ev("checkbox", TRUE, "", selectedApps))
    /\ UNCHANGED <<cmCmd, cmOpts, cmResults, cmApps, cmIdx>>
    /\ UNCHANGED <<fs, cbVars, ebVars, dkVars, cfgVars, biVars, scVars, riVars, pathVars,
                   rmVars, bkVars, rsVars>>

\* one round of the loop of uninstallCommand: safeRemove(app.path) and,
\* when it returned true, safeRemove of every related path; removed is what
\* safeRemove(app.path) returned
UninstallCommandStep(removed) ==
    /\ cmCmd = "uninstall"
    /\ cmPc = "removing"
    /\ cmIdx < Len(cmSelected)
    /\ cmIdx' = cmIdx + 1
    /\ \E app \in {cmSelected[cmIdx + 1]} :
          cmLog' = cmLog \o <<Ev("safeRemove", removed, app.name, {app.path})>>
                         \o (IF removed
                                THEN [i \in DOMAIN app.relatedPaths |->
                                         Ev("safeRemove", TRUE, app.name, {app.relatedPaths[i]})]
                                ELSE <<>>)
    /\ UNCHANGED <<cmPc, cmCmd, cmOpts, cmResults, cmApps, cmSelected>>
    /\ UNCHANGED <<fs, cbVars, ebVars, dkVars, cfgVars, biVars, scVars, riVars, pathVars,
                   rmVars, bkVars, rsVars>>

CommandsNext ==
    \/ \E options \in CommandOptions, summary \in ScanSummaries :
          CleanCommandCall(options, summary)
    \/ \E selectedCategories \in SUBSET {cmResults[i].category.id : i \in DOMAIN cmResults} :
       \E selectedPaths \in SUBSET {"/Users/u/Downloads/c", "/Users/u/d", "/Users/u/e"} :
          CleanCommandSelect(selectedCategories, selectedPaths)
    \/ \E proceed \in BOOLEAN : CommandConfirm(proceed)
    \/ CleanCommandStep
    \/ CommandReturn
    \/ \E options \in CommandOptions, apps \in InstalledApps :
          UninstallCommandCall(options, apps)
    \/ \E selectedApps \in SUBSET {cmApps[i].name : i \in DOMAIN cmApps} :
          UninstallCommandSelect(selectedApps)
    \/ \E removed \in BOOLEAN : UninstallCommandStep(removed)

SpecCommands == CommandsInit /\ [][CommandsNext]_vars

(***************************************************************************)
(* utils/backup.ts: ensureBackupDir                                        *)
(***************************************************************************)

\* the most session directories made in one behaviour
MaxSessions == 3

\* the day the clock counts the milliseconds of, from midnight UTC
Today == "2026-01-01"

Pad2(n) == Digits[((n \div 10) % 10) + 1] \o Digits[(n % 10) + 1]

Pad3(n) == Digits[((n \div 100) % 10) + 1] \o Pad2(n)

\* new Date(ms).toISOString(): YYYY-MM-DDTHH:mm:ss.sssZ
toISOString(ms) ==
    Today \o "T" \o Pad2(ms \div 3600000) \o ":" \o Pad2((ms \div 60000) % 60) \o ":"
          \o Pad2((ms \div 1000) % 60) \o "." \o Pad3(ms % 1000) \o "Z"

\* str.replace(/[:.]/g, '-')
RECURSIVE DashColonsDots(_)
DashColonsDots(str) ==
    IF str = "" THEN ""
    ELSE Only({IF c = ":" \/ c = "." THEN "-" \o rest ELSE c \o rest
               : c \in {SubSeq(str, 1, 1)}, rest \in {DashColonsDots(SubSeq(str, 2, Len(str)))}})

\* the session directory ensureBackupDir makes at the clock reading ms
SessionDirAt(ms) == Join(BACKUP_DIR, DashColonsDots(toISOString(ms)))

\* the clock readings of a behaviour: both sides of the end of a
\* millisecond, a second, a minute and an hour
ClockReadings == {0, 1, 999, 1000, 59999, 60000, 3599999, 3600000}

EnsureBackupDirInit ==
    /\ PathIdle
    /\ RmIdle
    /\ BkIdle
    /\ RiIdle
    /\ CfgIdle
    /\ BiIdle
    /\ ScIdle
    /\ CbIdle
    /\ CmIdle
    /\ DkIdle
    /\ fs \in BackupStarts
    /\ clock \in ClockReadings
    /\ ebDirs = <<>>

\* time passes: the clock moves on to the reading t
ClockTick(t) ==
    /\ t > clock
    /\ clock' = t
    /\ UNCHANGED <<fs, ebDirs, cbVars, cmVars, dkVars, cfgVars, biVars, scVars, riVars, pathVars, rmVars,
                   bkVars, rsVars>>

\* ensureBackupDir(): the timestamp of now, mkdir(sessionDir, { recursive:
\* true }), return sessionDir; ioOk is false when mkdir fails for a reason
\* outside the model, and then the call raises and returns nothing
EnsureBackupDir(ioOk) ==
    /\ Len(ebDirs) < MaxSessions
    /\ \E sessionDir \in {SessionDirAt(clock)} :
       \E made \in {MkdirP(fs, sessionDir)} :
          IF ioOk /\ made.err = ""
             THEN fs' = made.fs /\ ebDirs' = Append(ebDirs, sessionDir)
             ELSE UNCHANGED <<fs, ebDirs>>
    /\ UNCHANGED <<clock, cbVars, cmVars, dkVars, cfgVars, biVars, scVars, riVars, pathVars, rmVars, bkVars,
                   rsVars>>

EnsureBackupDirNext ==
    \/ \E t \in ClockReadings : ClockTick(t)
    \/ \E ioOk \in BOOLEAN : EnsureBackupDir(ioOk)

SpecEnsureBackupDir == EnsureBackupDirInit /\ [][EnsureBackupDirNext]_vars

(***************************************************************************)
(* utils/backup.ts: cleanOldBackups                                        *)
(***************************************************************************)

BACKUP_RETENTION_DAYS == 7

\* a backup root with an old and a new session, a file, a symbolic link to
\* a directory outside the backup root and a dangling symbolic link
SweepFs ==
    [q \in {"/", "/Users", "/Users/u", "/Users/u/keep", "/Users/u/keep/doc",
            Join(Home, ".mac-cleaner-cli"), BACKUP_DIR,
            Join(BACKUP_DIR, "s1"), Join(BACKUP_DIR, "s1/HOME"),
            Join(BACKUP_DIR, "s2"), Join(BACKUP_DIR, "note"), Join(BACKUP_DIR, "lnk"),
            Join(BACKUP_DIR, "gone")} |->
        CASE q = "/Users/u/keep/doc"          -> File("document")
          [] q = Join(BACKUP_DIR, "s1/HOME")  -> File("backed up")
          [] q = Join(BACKUP_DIR, "note")     -> File("note")
          [] q = Join(BACKUP_DIR, "lnk")      -> Link("/Users/u/keep")
          [] q = Join(BACKUP_DIR, "gone")     -> Link("/Users/u/none")
          [] OTHER                            -> Dir]

\* the filesystems the sweep starts on: with the backup root and without
SweepStarts == {SweepFs, Without(SweepFs, Subtree(SweepFs, BACKUP_DIR))}

\* the directories whose age varies, and the ages they may have; the file
\* in the backup root is older than the retention window
AgedEntries == {Join(BACKUP_DIR, "s1"), Join(BACKUP_DIR, "s2"), "/Users/u/keep"}

AgeChoices == {BACKUP_RETENTION_DAYS - 1, BACKUP_RETENTION_DAYS, BACKUP_RETENTION_DAYS + 1}

CleanOldBackupsInit ==
    /\ PathIdle
    /\ RmIdle
    /\ BkIdle
    /\ RiIdle
    /\ CfgIdle
    /\ BiIdle
    /\ ScIdle
    /\ EbIdle
    /\ CmIdle
    /\ DkIdle
    /\ fs \in SweepStarts
    /\ \E a \in [AgedEntries -> AgeChoices] :
          ages = [q \in DOMAIN SweepFs |->
                     IF q \in AgedEntries THEN a[q]
                     ELSE IF q = Join(BACKUP_DIR, "note") THEN BACKUP_RETENTION_DAYS + 1
                     ELSE 0]
    /\ cbPc = "idle"
    /\ cbEntries = {}
    /\ cbCleaned = 0
    /\ cbFailed = {}
    /\ cbStart = EmptyFs

\* cleanOldBackups up to its loop: readdir(BACKUP_DIR); ioOk is false when
\* the call fails for a reason outside the model
CleanOldBackupsCall(ioOk) ==
    /\ cbPc = "idle"
    /\ cbStart' = fs
    /\ cbCleaned' = 0
    /\ \E r \in {Readdir(fs, BACKUP_DIR)} :
          IF ioOk /\ r.err = ""
             THEN cbPc' = "loop" /\ cbEntries' = {e.name : e \in r.entries} /\ cbFailed' = {}
             ELSE cbPc' = "done" /\ cbEntries' = {} /\ cbFailed' = {BACKUP_DIR}
    /\ UNCHANGED <<fs, ages, ebVars, cmVars, dkVars, cfgVars, biVars, scVars, riVars, pathVars, rmVars, bkVars,
                   rsVars>>

\* the loop body for one entry: stat(entryPath), which follows symbolic
\* links, the test of the age, rm(entryPath, { recursive: true, force:
\* true }), cleaned++; statOk and rmOk are false when the call fails for a
\* reason outside the model
CleanOldBackupsEntry(entry, statOk, rmOk) ==
    /\ cbPc = "loop"
    /\ entry \in cbEntries
    /\ cbEntries' = cbEntries \ {entry}
    /\ \E entryPath \in {Join(BACKUP_DIR, entry)} :
       \E loc \in {LocateFollow(fs, entryPath, MaxLinkDepth)} :
          IF ~statOk \/ IsError(loc) \/ loc \notin DOMAIN fs
             THEN cbFailed' = cbFailed \cup {entry} /\ UNCHANGED <<fs, cbCleaned>>
          ELSE IF fs[loc].kind = "dir" /\ ages[loc] > BACKUP_RETENTION_DAYS
             THEN \E r \in {Rm(fs, entryPath)} :
                     IF ~rmOk \/ r.err # ""
                        THEN cbFailed' = cbFailed \cup {entry} /\ UNCHANGED <<fs, cbCleaned>>
                        ELSE /\ fs' = Without(fs, r.gone)
                             /\ cbCleaned' = cbCleaned + 1
                             /\ UNCHANGED cbFailed
          ELSE UNCHANGED <<fs, cbCleaned, cbFailed>>
    /\ UNCHANGED <<cbPc, cbStart, ages, ebVars, cmVars, dkVars, cfgVars, biVars, scVars, riVars, pathVars,
                   rmVars, bkVars, rsVars>>

\* return cleaned
CleanOldBackupsReturn ==
    /\ cbPc = "loop"
    /\ cbEntries = {}
    /\ cbPc' = "done"
    /\ UNCHANGED <<fs, ages, cbEntries, cbCleaned, cbFailed, cbStart, ebVars, cmVars, dkVars, cfgVars, biVars,
                   scVars, riVars, pathVars, rmVars, bkVars, rsVars>>

CleanOldBackupsNext ==
    \/ \E ioOk \in BOOLEAN : CleanOldBackupsCall(ioOk)
    \/ \E entry \in cbEntries, statOk \in BOOLEAN, rmOk \in BOOLEAN :
          CleanOldBackupsEntry(entry, statOk, rmOk)
    \/ CleanOldBackupsReturn

SpecCleanOldBackups == CleanOldBackupsInit /\ [][CleanOldBackupsNext]_vars

(***************************************************************************)
(* scanners/index.ts: runAllScans, a pool of workers that take the         *)
(* scanners from a shared cursor                                           *)
(***************************************************************************)

\* the number of registered scanners
MaxScanners == 3

\* the largest concurrency runAllScans is called with
MaxConcurrency == 3

\* the registered scanners, in registration order
Scanners == 1..MaxScanners

ScanInit ==
    /\ PathIdle
    /\ RmIdle
    /\ BkIdle
    /\ RiIdle
    /\ CfgIdle
    /\ BiIdle
    /\ ScIdle
    /\ ExtraIdle
    /\ fs = EmptyFs

\* runAllScans({ parallel: true, concurrency, onProgress }): the pool of
\* concurrency workers is set up, none of them has a scanner yet
RunAllScansCall(concurrency) ==
    /\ scPc = "idle"
    /\ scPc' = "running"
    /\ scCursor' = 0
    /\ scWorkers' = [w \in 1..concurrency |-> 0]
    /\ scDone' = 0
    /\ scProgress' = <<>>
    /\ scResults' = <<>>
    /\ UNCHANGED <<fs, cfgVars, biVars, riVars, pathVars, rmVars, bkVars, rsVars, extraVars>>

\* a scan started for the next scanner whether or not the worker is free
ScanStartUnbounded(w) ==
    /\ scPc = "running"
    /\ scCursor < MaxScanners
    /\ scCursor' = scCursor + 1
    /\ scWorkers' = [scWorkers EXCEPT ![w] = scCursor + 1]
    /\ UNCHANGED <<scPc, scDone, scProgress, scResults>>
    /\ UNCHANGED <<fs, cfgVars, biVars, riVars, pathVars, rmVars, bkVars, rsVars, extraVars>>

\* a worker without a scanner takes the next one from the cursor and
\* starts its scan
ScanStart(w) ==
    /\ scPc = "running"
    /\ scWorkers[w] = 0
    /\ scCursor < MaxScanners
    /\ scCursor' = scCursor + 1
    /\ scWorkers' = [scWorkers EXCEPT ![w] = scCursor + 1]
    /\ UNCHANGED <<scPc, scDone, scProgress, scResults>>
    /\ UNCHANGED <<fs, cfgVars, biVars, riVars, pathVars, rmVars, bkVars, rsVars, extraVars>>

\* the end of a scan where an error of the scanner ends the whole run
\* without a result and without the callback
ScanFinishAborting(w, raised) ==
    /\ scPc = "running"
    /\ scWorkers[w] # 0
    /\ scWorkers' = [scWorkers EXCEPT ![w] = 0]
    /\ IF raised
          THEN /\ scPc' = "done"
               /\ UNCHANGED <<scDone, scProgress, scResults>>
          ELSE /\ scDone' = scDone + 1
               /\ scProgress' = Append(scProgress, <<scDone + 1, MaxScanners, scWorkers[w]>>)
               /\ scResults' = Append(scResults, [scanner |-> scWorkers[w], raised |-> FALSE,
                                                  items |-> <<"item">>])
               /\ UNCHANGED scPc
    /\ UNCHANGED scCursor
    /\ UNCHANGED <<fs, cfgVars, biVars, riVars, pathVars, rmVars, bkVars, rsVars, extraVars>>

\* the scan of a worker ends, with its items or, when the scanner raised,
\* with an empty result; the callback is told (completedCount, total,
\* scanner) and the worker is free again
ScanFinish(w, raised) ==
    /\ scPc = "running"
    /\ scWorkers[w] # 0
    /\ scWorkers' = [scWorkers EXCEPT ![w] = 0]
    /\ scDone' = scDone + 1
    /\ scProgress' = Append(scProgress, <<scDone + 1, MaxScanners, scWorkers[w]>>)
    /\ scResults' = Append(scResults, [scanner |-> scWorkers[w], raised |-> raised,
                                       items |-> IF raised THEN <<>> ELSE <<"item">>])
    /\ UNCHANGED <<scPc, scCursor>>
    /\ UNCHANGED <<fs, cfgVars, biVars, riVars, pathVars, rmVars, bkVars, rsVars, extraVars>>

\* every scanner was taken and every worker is free: the summary is returned
RunAllScansReturn ==
    /\ scPc = "running"
    /\ scCursor = MaxScanners
    /\ \A w \in DOMAIN scWorkers : scWorkers[w] = 0
    /\ scPc' = "done"
    /\ UNCHANGED <<scCursor, scWorkers, scDone, scProgress, scResults>>
    /\ UNCHANGED <<fs, cfgVars, biVars, riVars, pathVars, rmVars, bkVars, rsVars, extraVars>>

ScanNext ==
    \/ \E concurrency \in 1..MaxConcurrency : RunAllScansCall(concurrency)
    \/ \E w \in DOMAIN scWorkers : ScanStart(w)
    \/ \E w \in DOMAIN scWorkers, raised \in BOOLEAN : ScanFinish(w, raised)
    \/ RunAllScansReturn

SpecScan == ScanInit /\ [][ScanNext]_vars

(***************************************************************************)
(* scanners/docker.ts, scanners/homebrew.ts, utils/fs.ts: the paths of the *)
(* items the scanners produce                                              *)
(***************************************************************************)

UpperCaseLetters == "ABCDEFGHIJKLMNOPQRSTUVWXYZ"

LowerCaseLetters == "abcdefghijklmnopqrstuvwxyz"

\* String.prototype.toLowerCase
RECURSIVE ToLowerCase(_)
ToLowerCase(str) ==
    IF str = "" THEN ""
    ELSE Only({(IF \E i \in 1..26 : SubSeq(UpperCaseLetters, i, i) = c
                   THEN SubSeq(LowerCaseLetters,
                               CHOOSE i \in 1..26 : SubSeq(UpperCaseLetters, i, i) = c,
                               CHOOSE i \in 1..26 : SubSeq(UpperCaseLetters, i, i) = c)
                ELSE c) \o rest
               : c \in {SubSeq(str, 1, 1)}, rest \in {ToLowerCase(SubSeq(str, 2, Len(str)))}})

\* str.replace(/\s+/g, '-')
RECURSIVE DashSpaces(_)
DashSpaces(str) ==
    IF str = "" THEN ""
    ELSE Only({IF SubSeq(str, 1, 1) # " " THEN SubSeq(str, 1, 1) \o rest
               ELSE IF Len(str) > 1 /\ SubSeq(str, 2, 2) = " " THEN rest
               ELSE "-" \o rest
               : rest \in {DashSpaces(SubSeq(str, 2, Len(str)))}})

VALID_DOCKER_TYPES == <<"images", "containers", "local volumes", "build cache">>

\* the loop body of DockerScanner.scan for one line of docker system df:
\* the items it pushes
DockerLineItems(type, reclaimableBytes) ==
    Only({IF normalizedType = ""
             \/ ~\E i \in DOMAIN VALID_DOCKER_TYPES : VALID_DOCKER_TYPES[i] = normalizedType
              THEN <<>>
          ELSE IF reclaimableBytes > 0
              THEN <<[path |-> "docker:" \o DashSpaces(normalizedType), size |-> reclaimableBytes]>>
          ELSE <<>>
          : normalizedType \in {Trim(ToLowerCase(type))}})

\* DockerScanner.scan on the lines of docker system df, each a type and
\* its reclaimable bytes
RECURSIVE DockerScan(_)
DockerScan(lines) ==
    IF lines = <<>> THEN <<>>
    ELSE DockerLineItems(Head(lines).type, Head(lines).reclaimable) \o DockerScan(Tail(lines))

EXPECTED_CACHE_PREFIXES ==
    <<Join(Join(Join(Home, "Library"), "Caches"), "Homebrew"), "/opt/homebrew/Caches",
      "/usr/local/Caches">>

\* HomebrewScanner.scan when brew --cache prints brewCache: the items
HomebrewScan(fsys, brewCache) ==
    Only({IF ~\E i \in DOMAIN EXPECTED_CACHE_PREFIXES :
                 AtOrUnder(resolvedCache, EXPECTED_CACHE_PREFIXES[i])
              THEN <<>>
          ELSE IF IsError(loc) \/ loc \notin DOMAIN fsys THEN <<>>
          ELSE <<[path |-> brewCache, size |-> 1]>>
          : resolvedCache \in {Resolve(brewCache)},
            loc \in {LocateFollow(fsys, brewCache, MaxLinkDepth)}})

\* the elements of a set in one order
SetToSeq(S) == CHOOSE f \in [1..Cardinality(S) -> S] : \A x \in S : \E i \in DOMAIN f : f[i] = x

\* getDirectoryItems(dirPath): one item for each entry of the directory
getDirectoryItems(fsys, dirPath) ==
    Only({IF r.err # "" THEN <<>>
          ELSE SetToSeq({[path |-> Join(dirPath, e.name), size |-> 1] : e \in r.entries})
          : r \in {Readdir(fsys, dirPath)}})

\* the filesystem the scanners look at
ScanFs ==
    [q \in {"/", "/opt", "/opt/homebrew", "/opt/homebrew/Caches", "/opt/homebrew/Caches/dl",
            "/Users", "/Users/u", "/Users/u/Library", "/Users/u/Library/Caches",
            "/Users/u/Library/Caches/Homebrew", "/Users/u/Library/Caches/Homebrew/b"} |->
        CASE q = "/opt/homebrew/Caches/dl"             -> File("download")
          [] q = "/Users/u/Library/Caches/Homebrew/b"  -> File("bottle")
          [] OTHER                                     -> Dir]

\* the Type column of a line of docker system df
DockerTypeInputs ==
    {"Images", "Containers", "Local Volumes", "Build Cache", "images", " build cache ",
     "Networks", "", "local  volumes", "IMAGES"}

\* what brew --cache prints, and the directories the scanners list
ScanPathInputs ==
    {h \o t : h \in {"/opt/homebrew/Caches", "/Users/u/Library/Caches", "/Users/u/Library",
                     "/usr/local/Caches", "/tmp"},
              t \in {"", "/", "/Homebrew", "/../Caches", "/./Homebrew", "/missing"}}

ScanItemsInit ==
    /\ arg \in DockerTypeInputs \cup ScanPathInputs
    /\ out = NoOut
    /\ fs = ScanFs
    /\ RmIdle
    /\ BkIdle
    /\ RiIdle
    /\ OtherIdle

\* DockerScanner.scan when docker system df prints one line of that type
CallDockerScan(reclaimableBytes) ==
    /\ out.fn = "none"
    /\ out' = [fn |-> "DockerScanner.scan",
               items |-> DockerScan(<<[type |-> arg, reclaimable |-> reclaimableBytes]>>)]
    /\ UNCHANGED <<arg, fs, rmVars, bkVars, rsVars, riVars, otherVars>>

CallHomebrewScan ==
    /\ out.fn = "none"
    /\ out' = [fn |-> "HomebrewScanner.scan", items |-> HomebrewScan(fs, arg)]
    /\ UNCHANGED <<arg, fs, rmVars, bkVars, rsVars, riVars, otherVars>>

CallGetDirectoryItems ==
    /\ out.fn = "none"
    /\ out' = [fn |-> "getDirectoryItems", items |-> getDirectoryItems(fs, arg)]
    /\ UNCHANGED <<arg, fs, rmVars, bkVars, rsVars, riVars, otherVars>>

ScanItemsNext ==
    \/ \E reclaimableBytes \in {0, 5} : CallDockerScan(reclaimableBytes)
    \/ CallHomebrewScan
    \/ CallGetDirectoryItems

SpecScanItems == ScanItemsInit /\ [][ScanItemsNext]_vars

(***************************************************************************)
(* scanners/docker.ts: DockerScanner.clean                                 *)
(***************************************************************************)

DockerTypes == {VALID_DOCKER_TYPES[i] : i \in DOMAIN VALID_DOCKER_TYPES}

\* the reclaimable bytes a resource type may have
ReclaimableChoices == {0, 5}

\* the lines of docker system df for the resources res
DockerDf(res) ==
    [i \in DOMAIN VALID_DOCKER_TYPES |->
        [type |-> VALID_DOCKER_TYPES[i], reclaimable |-> res[VALID_DOCKER_TYPES[i]]]]

\* docker system prune -af: everything unused but the volumes
SystemPrune(res) == [t \in DOMAIN res |-> IF t = "local volumes" THEN res[t] ELSE 0]

DockerCleanInit ==
    /\ PathIdle
    /\ RmIdle
    /\ BkIdle
    /\ RiIdle
    /\ CfgIdle
    /\ BiIdle
    /\ ScIdle
    /\ CbIdle
    /\ EbIdle
    /\ CmIdle
    /\ fs = EmptyFs
    /\ dkRes \in [DockerTypes -> ReclaimableChoices]
    /\ dkStart = <<>>
    /\ dkOut = NoResult

\* DockerScanner.clean(items, dryRun); binaryFound: findDockerBinary found
\* the binary, pruneOk: the prune command succeeded
DockerClean(items, dryRun, binaryFound, pruneOk) ==
    /\ dkStart = <<>>
    /\ dkStart' = [res |-> dkRes, items |-> items, dryRun |-> dryRun]
    /\ IF dryRun
          THEN /\ dkOut' = [cleanedItems |-> Len(items), freedSpace |-> ItemsSize(items),
                            errors |-> <<>>]
               /\ UNCHANGED dkRes
       ELSE IF ~binaryFound
          THEN /\ dkOut' = [cleanedItems |-> 0, freedSpace |-> 0,
                            errors |-> <<"Docker binary not found in safe locations">>]
               /\ UNCHANGED dkRes
       ELSE IF pruneOk
          THEN /\ dkRes' = SystemPrune(dkRes)
               /\ dkOut' = [cleanedItems |-> Len(items), freedSpace |-> ItemsSize(items),
                            errors |-> <<>>]
       ELSE /\ dkOut' = [cleanedItems |-> 0, freedSpace |-> 0,
                         errors |-> <<"Docker cleanup failed">>]
            /\ UNCHANGED dkRes
    /\ UNCHANGED <<fs, cbVars, ebVars, cmVars, cfgVars, biVars, scVars, riVars, pathVars,
                   rmVars, bkVars, rsVars>>

\* the call is made with a selection of the items the scan found
DockerCleanNext ==
    \E scanned \in {DockerScan(DockerDf(dkRes))} :
    \E keep \in SUBSET DOMAIN scanned :
    \E dryRun \in BOOLEAN, binaryFound \in BOOLEAN, pruneOk \in BOOLEAN :
        DockerClean(Kept(scanned, keep, 1), dryRun, binaryFound, pruneOk)

SpecDockerClean == DockerCleanInit /\ [][DockerCleanNext]_vars

(***************************************************************************)
(* Canonical paths as segment sequences, for stating the properties        *)
(***************************************************************************)

\* the segments of the canonical absolute form of p
Canon(p) ==
    NormSegs(Split(IF IsAbsolute(p) THEN p ELSE Cwd \o "/" \o p), <<>>, FALSE)

\* a is b or an ancestor of b, by whole segments
IsSegPrefix(a, b) == Len(a) <= Len(b) /\ SubSeq(b, 1, Len(a)) = a

HomeSegs == Canon(Home)

\* c is one of the roots or a descendant of one
AtOrUnderAny(c, roots) == \E r \in roots : IsSegPrefix(Canon(r), c)

StrictlyUnder(c, root) == IsSegPrefix(root, c) /\ c # root

(***************************************************************************)
(* Properties of the path predicates                                       *)
(***************************************************************************)

\* C9: validatePathSafety(p) is non-null whenever p canonicalizes to the
\* filesystem root or to the home directory itself, however p is written,
\* and is null for every strict descendant of home that is not at or under
\* a deny-listed root.
C9_ValidateRootHome ==
    out.fn = "validatePathSafety" =>
        /\ (Canon(arg) = <<>> \/ Canon(arg) = HomeSegs) => out.safety # "null"
        /\ (StrictlyUnder(Canon(arg), HomeSegs) /\ ~AtOrUnderAny(Canon(arg), PROTECTED_PATHS))
              => out.safety = "null"

\* the home directory written with a trailing slash and a ".." segment is
\* refused
C9_Witness ==
    /\ out.fn = "validatePathSafety"
    /\ arg = Home \o "/x/../"
    /\ out.safety = "HomeDirectory"

\* C10: isProtectedPath(p) is false for every p at or under an allowed
\* root; for every other p it is true exactly when p is at or under a
\* deny-listed root, by whole path segments.
C10_ProtectedBySegments ==
    out.fn = "isProtectedPath" =>
        out.prot = (/\ ~AtOrUnderAny(Canon(arg), ALLOWED_PATHS)
                    /\ AtOrUnderAny(Canon(arg), PROTECTED_PATHS))

\* /usrlocal/x shares the characters of /usr but is not protected
C10_Witness ==
    /\ out.fn = "isProtectedPath"
    /\ arg = "/usrlocal/x"
    /\ ~out.prot

(***************************************************************************)
(* Properties of removeItem                                                *)
(***************************************************************************)

\* the entry with the real path n is a deny-listed root or lies beneath one
ProtectedEntry(n) == AtOrUnderAny(Canon(n), PROTECTED_PATHS)

\* C1: a non-dry-run removeItem call never deletes a filesystem entry that
\* is a deny-listed root or lies beneath one, whatever path argument it is
\* given.
C1_NeverDeletesProtected == \A n \in rmGone : ~ProtectedEntry(n)

\* the position of an operation in the record of the call, 0 when absent
OpIndex(op) ==
    IF \E i \in 1..Len(rmOps) : rmOps[i] = op
        THEN CHOOSE i \in 1..Len(rmOps) : rmOps[i] = op
    ELSE 0

Deleting == OpIndex("unlink") # 0 \/ OpIndex("rm") # 0

ValidationFailed == ~rmDry /\ rmOps # <<>> /\ rmOps[1] # "validate:null"

C2_Order ==
    /\ Deleting =>
          /\ OpIndex("validate:null") = 1
          /\ OpIndex("lstat") = 2
          /\ OpIndex("unlink") \in {0, 3}
          /\ OpIndex("rm") \in {0, 3}
    /\ rmGone # {} => Deleting
    /\ ValidationFailed =>
          /\ rmPc \in {"done", "idle"}
          /\ rmResult = "false"
          /\ Len(rmOps) = 1
          /\ rmGone = {}

\* C2: in every non-dry-run removeItem call the unlink or the recursive
\* removal happens only after validatePathSafety returned null for the path
\* and the no-follow re-stat ran, in that same call; a call whose validation
\* fails returns false having performed no stat, unlink or removal, with the
\* filesystem unchanged.
C2_ValidatedBeforeRemoval ==
    /\ []C2_Order
    /\ [][(rmPc = "idle" /\ rmPc' = "done") => fs' = fs]_vars

\* a directory removed recursively after validation and re-stat
C2_Witness ==
    /\ rmOps = <<"validate:null", "lstat", "rm">>
    /\ rmPath = "/Users/u/d"
    /\ {"/Users/u/d", "/Users/u/d/x"} \subseteq rmGone

\* C3: when the entry at the path is a symbolic link at the re-stat, or is
\* swapped for one between the re-stat and the removal, removeItem removes
\* at most the link: the target and everything in it exists afterwards
\* with the content it had when the call started.
C3_LinkTargetUntouched ==
    \A t \in rmLinks : \A q \in DOMAIN rmBefore :
        AtOrUnder(q, t) => q \in DOMAIN fs /\ fs[q] = rmBefore[q]

\* the re-stat saw no link, the entry was then swapped for a link to a
\* directory, and the removal succeeded
C3_Witness ==
    /\ rmPc = "done"
    /\ rmResult = "true"
    /\ ~rmIsLink
    /\ rmLinks = {"/usr"}
    /\ rmGone # {}

\* C4: removeItem(path, dryRun = true) returns true for every path, without
\* any filesystem call and with the filesystem unchanged, on every one of
\* any number of repeated calls.
C4_DryRunNoEffect ==
    /\ [](rmDry => rmGone = {} /\ rmOps = <<>> /\ rmPc \in {"idle", "done"})
    /\ [][(rmPc = "idle" /\ rmPc' # "idle" /\ rmDry')
            => (rmPc' = "done" /\ rmResult' = "true" /\ fs' = fs)]_vars

\* the second dry run on a protected path returns true
C4_Witness ==
    /\ rmCalls = 2
    /\ rmDry
    /\ rmPc = "done"
    /\ rmPath = "/usr/x"
    /\ rmResult = "true"
    /\ "/usr/x" \in DOMAIN fs

(***************************************************************************)
(* Properties of restoreBackup                                             *)
(***************************************************************************)

BackupRootSegs == Canon(BACKUP_DIR)

Outcomes(kinds) == {l \in rsLog : l.outcome \in kinds}

\* C5: restoreBackup(dir), for every dir whose canonical path is not the
\* backup root or a descendant of it by path segments, returns success = 0
\* with an error naming an invalid backup directory, and moves no file.
C5_RejectsOutsideBackupRoot ==
    (bkPc = "done" /\ ~IsSegPrefix(BackupRootSegs, Canon(rsArg))) =>
        /\ rsSuccess = 0
        /\ \E i \in DOMAIN rsErrors : rsErrors[i] = "Invalid backup directory"
        /\ fs = rsStart

\* C6: for every file with content C at path P for which backupItem(item,
\* session) returned true, restoreBackup(session) leaves a file at P with
\* content C.
C6_RoundTrip ==
    (bkPc = "done" /\ rsDir = Session) =>
        \A b \in bkBacked : b.path \in DOMAIN fs /\ fs[b.path] = File(b.content)

\* the reconstructed target fails the home-boundary or traversal check
FailsRestoreCheck(target) ==
    ~IsSegPrefix(HomeSegs, Canon(target)) \/ Includes(target, "..")

\* C7: in any restoreBackup run, whatever the session directory holds,
\* every place a file is moved to (and every directory made for it) is a
\* strict descendant of the home directory by path segments; an entry
\* whose reconstructed target fails the home-boundary/traversal check is
\* counted as failed and stays where it is.
C7_RestoreStaysInHome ==
    bkPc \in {"restoring", "done"} =>
        /\ \A q \in DOMAIN fs :
              (q \notin DOMAIN rsStart \/ fs[q] # rsStart[q])
                  => StrictlyUnder(Canon(q), HomeSegs)
        /\ \A l \in rsLog :
              /\ l.outcome = "moved" =>
                    /\ StrictlyUnder(Canon(l.target), HomeSegs)
                    /\ fs[l.target] = rsStart[l.entry]
                    /\ l.entry \notin DOMAIN fs
              /\ (l.target # "" /\ FailsRestoreCheck(l.target)) =>
                    /\ l.outcome = "invalid"
                    /\ l.entry \in DOMAIN fs
                    /\ fs[l.entry] = rsStart[l.entry]
        /\ Cardinality(Outcomes({"invalid"})) <= rsFailed

\* one entry restored into home and one refused for the ".." in its name
C7_Witness ==
    /\ bkPc = "done"
    /\ \E l \in rsLog : l.outcome = "moved" /\ l.target = "/Users/u/a"
    /\ \E l \in rsLog : l.outcome = "invalid" /\ l.target = "/Users/u/n..m"

\* the entries of the tree below root when restoreBackup was called
NonDirEntries(root) ==
    {q \in DOMAIN rsStart : AtOrUnder(q, root) /\ q # root /\ rsStart[q].kind # "dir"}

UnreadableDirs(root) ==
    {q \in DOMAIN rsStart : AtOrUnder(q, root) /\ rsStart[q] = UnreadableDir}

\* q lies inside a directory that cannot be read
Hidden(q) == \E d \in UnreadableDirs(rsDir) : AtOrUnder(q, d) /\ q # d

\* restoreBackup has returned from a walk of the session
Accepted ==
    /\ bkPc = "done"
    /\ ~\E i \in DOMAIN rsErrors : rsErrors[i] = "Invalid backup directory"

\* C8 as stated: every non-directory entry of the session tree is handled
\* exactly once, failed is the number of error messages, and success +
\* failed + skipped is the number of non-directory entries plus the number
\* of unreadable directories.
C8_EveryEntryOnce ==
    Accepted =>
        /\ rsFailed = Len(rsErrors)
        /\ {l.entry : l \in rsLog} = NonDirEntries(rsDir)
        /\ rsHandled = Cardinality(NonDirEntries(rsDir))
        /\ rsSuccess + rsFailed + Cardinality(Outcomes({"skipped"}))
              = Cardinality(NonDirEntries(rsDir)) + Cardinality(UnreadableDirs(rsDir))

\* C8 amended: the same, for the non-directory entries and the unreadable
\* directories that are not inside an unreadable directory.
C8_EveryReadableEntryOnce ==
    Accepted =>
        LET files  == {q \in NonDirEntries(rsDir) : ~Hidden(q)}
            locked == {q \in UnreadableDirs(rsDir) : ~Hidden(q)}
        IN  /\ rsFailed = Len(rsErrors)
            /\ {l.entry : l \in rsLog} = files
            /\ rsHandled = Cardinality(files)
            /\ rsSuccess = Cardinality(Outcomes({"moved"}))
            /\ rsFailed = Cardinality(Outcomes({"outside", "invalid", "ioerror"}))
                            + Cardinality(locked)
            /\ rsSuccess + rsFailed + Cardinality(Outcomes({"skipped"}))
                  = Cardinality(files) + Cardinality(locked)

\* a restore with a moved file, a refused file, a failed move and an
\* unreadable directory
C8_Witness ==
    /\ Accepted
    /\ rsDir = Session
    /\ Outcomes({"moved"}) # {}
    /\ Outcomes({"invalid"}) # {}
    /\ Outcomes({"ioerror"}) # {}
    /\ UnreadableDirs(rsDir) # {}
    /\ rsFailed = 3

(***************************************************************************)
(* utils/paths.ts                                                          *)
(***************************************************************************)

\* p has a ".." path segment
HasDotDotSegment(p) == \E i \in DOMAIN Split(p) : Split(p)[i] = ".."

\* C11: hasTraversalPattern is true for every path with a ".." segment and
\* false for every path without one, names that merely contain two dots
\* included
C11_TraversalIffDotDotSegment ==
    out.fn = "hasTraversalPattern" => (out.result <=> HasDotDotSegment(arg))

\* C12: on an input that starts with "~", allowOutsideHome false, expandPath
\* throws or returns a canonical path that is the home directory or below it
\* by segments
C12_ExpandStaysInHome ==
    (out.fn = "expandPath" /\ ~out.allowOutsideHome /\ StartsWith(arg, "~"))
        => \/ out.threw
           \/ LET segs == Split(Slice(out.result, 1))
              IN  /\ StartsWith(out.result, "/")
                  /\ \A i \in DOMAIN segs : segs[i] \notin {"", ".", ".."}
                  /\ IsSegPrefix(<<"Users", "u">>, segs)

\* a home-relative input that leaves home and comes back is returned
\* canonical
C12_Witness ==
    /\ out.fn = "expandPath"
    /\ ~out.allowOutsideHome
    /\ arg = "~/x/../u2"
    /\ ~out.threw
    /\ out.result = "/Users/u/u2"

(***************************************************************************)
(* utils/config.ts                                                         *)
(***************************************************************************)

\* what JSON.parse gave for the one config file of SpecConfigFile
Parsed == cfgFiles[CONFIG_PATHS[1]].parsed

\* the file gives the key a value of that type
FileHas(key, type) == Parsed[1] = "obj" /\ key \in DOMAIN Parsed[2] /\ Parsed[2][key][1] = type

\* C13: each numeric field loads as the file's value when that is an integer
\* within the field's bounds and as the field's default otherwise, whatever
\* the other fields of the file are
C13_NumericFieldsIndependent ==
    cfgOut.fn = "loadConfig" =>
        \A k \in NumericFields :
            cfgOut.result[k] =
                IF /\ FileHas(k, "num")
                   /\ Parsed[2][k][2] >= CONFIG_CONSTRAINTS[k].min
                   /\ Parsed[2][k][2] <= CONFIG_CONSTRAINTS[k].max
                    THEN Parsed[2][k][2]
                ELSE DEFAULT_CONFIG[k]

\* the j-th smallest element of a set of numbers
Nth(K, j) == CHOOSE i \in K : Cardinality({m \in K : m < i}) = j - 1

\* the elements of list at the indices that satisfy Keep, in their order
Subsequence(list, Keep(_)) ==
    LET K == {i \in DOMAIN list : Keep(i)}
    IN  [j \in 1..Cardinality(K) |-> list[Nth(K, j)]]

CategoryIds == {VALID_CATEGORIES[i] : i \in DOMAIN VALID_CATEGORIES}

\* C14: the category lists of the loaded config are the known ids of the
\* file's lists in their original order
C14_KnownCategoriesInOrder ==
    cfgOut.fn = "loadConfig" =>
        \A key \in {"defaultCategories", "excludeCategories"} :
            FileHas(key, "arr") =>
                /\ key \in DOMAIN cfgOut.result
                /\ LET list == Parsed[2][key][2]
                   IN  cfgOut.result[key] =
                           Subsequence([i \in DOMAIN list |-> list[i][2]],
                                       LAMBDA i : list[i][1] = "str" /\ list[i][2] \in CategoryIds)

\* the entry with a leading "~/" replaced by the home directory
HomeExpanded(p) == IF StartsWith(p, "~/") THEN Home \o "/" \o Slice(p, 2) ELSE p

AllowedRoots == {Home, "/Users", "/Volumes"}

\* the list validatePaths is given for the key of extraPaths, if any
FilePaths(key) == Parsed[2]["extraPaths"][2][key]

HasFilePaths(key) ==
    /\ FileHas("extraPaths", "obj")
    /\ key \in DOMAIN Parsed[2]["extraPaths"][2]
    /\ FilePaths(key)[1] = "arr"

\* the first maxExtraPaths strings of the file's list
ConsideredPaths(key) ==
    LET strs == Subsequence([i \in DOMAIN FilePaths(key)[2] |-> FilePaths(key)[2][i][2]],
                            LAMBDA i : FilePaths(key)[2][i][1] = "str")
    IN  SubSeq(strs, 1, IF Len(strs) < maxExtraPaths THEN Len(strs) ELSE maxExtraPaths)

\* C17: every extra path of the loaded config canonicalizes to an allowed
\* root or below one by segments, at most maxExtraPaths are kept, and the
\* entries kept are all the considered entries that do so, in their order
C17_ExtraPathsAllowed ==
    cfgOut.fn = "loadConfig" =>
        \A key \in {"nodeModules", "projects"} :
            /\ ("extraPaths" \in DOMAIN cfgOut.result /\ key \in DOMAIN cfgOut.result["extraPaths"])
                  => LET kept == cfgOut.result["extraPaths"][key]
                     IN  /\ Len(kept) <= maxExtraPaths
                         /\ \A i \in DOMAIN kept : AtOrUnderAny(Canon(kept[i]), AllowedRoots)
            /\ HasFilePaths(key)
                  => /\ "extraPaths" \in DOMAIN cfgOut.result
                     /\ key \in DOMAIN cfgOut.result["extraPaths"]
                     /\ LET kept == cfgOut.result["extraPaths"][key]
                            all  == [i \in DOMAIN ConsideredPaths(key) |->
                                        Canon(HomeExpanded(ConsideredPaths(key)[i]))]
                        IN  [i \in DOMAIN kept |-> Canon(kept[i])] =
                                Subsequence(all, LAMBDA i : AtOrUnderAny(all[i], AllowedRoots))

\* a list of more than maxExtraPaths entries, the first outside the allowed
\* directories: that one is dropped and the last is not considered
C17_Witness ==
    /\ cfgOut.fn = "loadConfig"
    /\ HasFilePaths("nodeModules")
    /\ FilePaths("nodeModules") = LongPathList
    /\ Len(cfgOut.result["extraPaths"]["nodeModules"]) = maxExtraPaths - 1

\* the file at the path cannot be used: it is missing, too large or not JSON
FileIsBad(path) ==
    \/ Resolve(path) \notin DOMAIN cfgFiles
    \/ cfgFiles[Resolve(path)].length > MaxConfigLength
    \/ cfgFiles[Resolve(path)].parsed = SyntaxError

PathIsOutside(path) ==
    path # "undefined" /\ ~AtOrUnderAny(Canon(path), {Home})

\* C15: loadConfig never raises, and a load that meets a file that is
\* malformed, too large or missing, or a path outside the allowed
\* directory, returns the built-in defaults
C15_BadFileGivesDefaults ==
    cfgOut.fn = "loadConfig" =>
        /\ ~cfgOut.threw
        /\ (PathIsOutside(cfgOut.path) \/ \E i \in DOMAIN cfgReads : FileIsBad(cfgReads[i]))
              => cfgOut.result = DEFAULT_CONFIG

\* C15, amended: loadConfig never raises, and a load returns the built-in
\* defaults when its path is outside the allowed directory or every file it
\* tried is malformed, too large or missing
C15_NoUsableFileGivesDefaults ==
    cfgOut.fn = "loadConfig" =>
        /\ ~cfgOut.threw
        /\ (\/ PathIsOutside(cfgOut.path)
            \/ cfgReads # <<>> /\ \A i \in DOMAIN cfgReads : FileIsBad(cfgReads[i]))
              => cfgOut.result = DEFAULT_CONFIG

\* both candidate files were tried, the first too large, the second missing
C15_Witness ==
    /\ cfgOut.fn = "loadConfig"
    /\ cfgOut.path = "undefined"
    /\ cfgReads = CONFIG_PATHS
    /\ CONFIG_PATHS[1] \in DOMAIN cfgFiles
    /\ cfgFiles[CONFIG_PATHS[1]].length > MaxConfigLength
    /\ CONFIG_PATHS[2] \notin DOMAIN cfgFiles
    /\ cfgOut.result = DEFAULT_CONFIG

\* C16: once a loadConfig call has filled the cache, every later loadConfig()
\* returns that configuration and reads no file, until clearConfigCache();
\* with the cache empty loadConfig() reads the files
C16_CacheKeptUntilCleared ==
    /\ [][(/\ cfgFirst # NullConfig
           /\ cfgOps' = cfgOps + 1
           /\ cfgOut'.fn = "loadConfig"
           /\ cfgOut'.path = "undefined")
             => (cfgOut'.result = cfgFirst /\ cfgReads' = <<>>)]_vars
    /\ [][(/\ cachedConfig = NullConfig
           /\ cfgOps' = cfgOps + 1
           /\ cfgOut'.fn = "loadConfig"
           /\ cfgOut'.path = "undefined")
             => cfgReads' # <<>>]_vars

\* C16, amended: while the cache is filled, loadConfig() returns the
\* configuration cached last, by a load that read the files or by saveConfig,
\* and reads no file; with the cache empty loadConfig() reads the files
C16_CacheServesLastCached ==
    /\ [][(/\ cachedConfig # NullConfig
           /\ cfgOps' = cfgOps + 1
           /\ cfgOut'.fn = "loadConfig"
           /\ cfgOut'.path = "undefined")
             => (cfgOut'.result = cachedConfig /\ cfgReads' = <<>> /\ cachedConfig' = cachedConfig)]_vars
    /\ [][(/\ cachedConfig = NullConfig
           /\ cfgOps' = cfgOps + 1
           /\ cfgOut'.fn = "loadConfig"
           /\ cfgOut'.path = "undefined")
             => (cfgReads' # <<>> /\ cachedConfig' = cfgOut'.result)]_vars

\* a loadConfig() served from the cache after saveConfig replaced what the
\* first load had cached
C16_Witness ==
    /\ cfgOut.fn = "loadConfig"
    /\ cfgOut.path = "undefined"
    /\ cfgReads = <<>>
    /\ cfgFirst # NullConfig
    /\ cfgOut.result # cfgFirst
    /\ cfgOut.result = cachedConfig

(***************************************************************************)
(* utils/fs.ts: removeItems                                                *)
(***************************************************************************)

\* the sum of the sizes of the items at the indices of K
RECURSIVE SizeSum(_, _)
SizeSum(items, K) ==
    IF K = {} THEN 0
    ELSE LET k == CHOOSE x \in K : TRUE
         IN  items[k].size + SizeSum(items, K \ {k})

\* the items whose removal returned true, by the log
RemovedTrue == {riLog[j][2] : j \in {x \in DOMAIN riLog : riLog[x][1] = "removed" /\ riLog[x][3]}}

\* C18: removeItems takes its items in list order, one removal at a time:
\* the callback for item i with (i, n, item) comes after the return of
\* removal i - 1 and before the start of removal i; a failed removal does
\* not stop the batch; on return success + failed = n and freedSpace is the
\* sum of the sizes of the items whose removal returned true
C18_SequentialBatch ==
    /\ \A j \in DOMAIN riLog :
          LET i == (j + 2) \div 3
          IN  CASE j % 3 = 1 -> riLog[j] = <<"onProgress", i, Len(riItems), riItems[i]>>
                [] j % 3 = 2 -> riLog[j] = <<"removeItem", i>>
                [] OTHER     -> riLog[j][1] = "removed" /\ riLog[j][2] = i
    /\ rmPc # "idle" => riPc = "await" /\ Len(riLog) = 3 * riIdx - 1
    /\ riPc = "await" => rmPath = riItems[riIdx].path /\ rmDry = riDry
    /\ riPc = "done" =>
          /\ Len(riLog) = 3 * Len(riItems)
          /\ riSuccess + riFailed = Len(riItems)
          /\ riSuccess = Cardinality(RemovedTrue)
          /\ riFreed = SizeSum(riItems, RemovedTrue)

\* a batch of two whose first removal failed and whose second succeeded
C18_Witness ==
    /\ riPc = "done"
    /\ ~riDry
    /\ Len(riItems) = 2
    /\ riLog[3] = <<"removed", 1, FALSE>>
    /\ riLog[6] = <<"removed", 2, TRUE>>
    /\ riSuccess = 1
    /\ riFailed = 1
    /\ riFreed = riItems[2].size

(***************************************************************************)
(* utils/backup.ts: backupItems                                            *)
(***************************************************************************)

\* C19: backupItems never raises: a failure is reported through the failed
\* count only, the failing item stays at its path, the items after it are
\* still processed, and success + failed is the number of items
C19_BackupNeverRaises ==
    /\ biPc # "threw"
    /\ \A j \in DOMAIN biLog :
          (biLog[j][1] = "backed" /\ ~biLog[j][3]) => biLog[j][4]
    /\ biPc = "done" =>
          /\ Len(biLog) = 2 * Len(biItems)
          /\ biSuccess + biFailed = Len(biItems)
          /\ biFailed = Cardinality({j \in DOMAIN biLog : biLog[j][1] = "backed" /\ ~biLog[j][3]})

(***************************************************************************)
(* scanners/index.ts: runAllScans                                          *)
(***************************************************************************)

\* the scanners whose scan has started
ScansStarted == 1..scCursor

\* C20: for every concurrency runAllScans runs the scan of every scanner
\* exactly once and tells the callback once per scanner, with completedCount
\* 1, 2, ..., total in this order, also when scanners raise; a scanner that
\* raises has an empty result and the other scans complete
C20_EveryScannerOnce ==
    /\ Len(scProgress) = scDone
    /\ Len(scResults) = scDone
    /\ \A j \in DOMAIN scProgress :
          /\ scProgress[j] = <<j, MaxScanners, scResults[j].scanner>>
          /\ scResults[j].scanner \in ScansStarted
          /\ scResults[j].raised => scResults[j].items = <<>>
    /\ \A j, k \in DOMAIN scResults : j # k => scResults[j].scanner # scResults[k].scanner
    /\ \A w, x \in DOMAIN scWorkers :
          (w # x /\ scWorkers[w] # 0) => scWorkers[w] # scWorkers[x]
    /\ \A w \in DOMAIN scWorkers :
          scWorkers[w] # 0 =>
              /\ scWorkers[w] \in ScansStarted
              /\ \A j \in DOMAIN scResults : scResults[j].scanner # scWorkers[w]
    /\ scPc = "done" =>
          /\ scDone = MaxScanners
          /\ {scResults[j].scanner : j \in DOMAIN scResults} = Scanners

\* a run with several workers where a scanner raised and the scans were
\* completed in another order than they were registered
C20_Witness ==
    /\ scPc = "done"
    /\ Len(scWorkers) > 1
    /\ \E j \in DOMAIN scResults : scResults[j].raised
    /\ \E j \in DOMAIN scResults : ~scResults[j].raised /\ scResults[j].items # <<>>
    /\ scProgress[1][3] # 1
    /\ scDone = MaxScanners

\* C21: at every moment of a run at most concurrency scans have started
\* and not finished, and a scan starts only by a free worker taking the next
\* index from the cursor, so that no index is taken twice
C21_BoundedPool ==
    /\ [](scCursor - scDone <= Len(scWorkers))
    /\ [](\A w, x \in DOMAIN scWorkers :
            (w # x /\ scWorkers[w] # 0) => scWorkers[w] # scWorkers[x])
    /\ [][\A w \in DOMAIN scWorkers :
            (w \in DOMAIN scWorkers' /\ scWorkers'[w] # scWorkers[w] /\ scWorkers'[w] # 0) =>
                /\ scWorkers[w] = 0
                /\ scWorkers'[w] = scCursor + 1
                /\ scCursor' = scCursor + 1
                /\ \A x \in DOMAIN scWorkers \ {w} : scWorkers'[x] = scWorkers[x]]_vars
    /\ [][scCursor' # scCursor =>
            \/ scCursor' = 0
            \/ scCursor' = scCursor + 1 /\ \E w \in DOMAIN scWorkers : scWorkers'[w] = scCursor']_vars

\* two workers both scanning while a third scanner waits for a free worker
C21_Witness ==
    /\ scPc = "running"
    /\ Len(scWorkers) = 2
    /\ \A w \in DOMAIN scWorkers : scWorkers[w] # 0
    /\ scCursor - scDone = 2
    /\ scCursor < MaxScanners

(***************************************************************************)
(* the items of the scanners                                               *)
(***************************************************************************)

\* C22: the path of every item a scan produces is absolute and has no "."
\* and no ".." segment
C22_ItemPathsCanonical ==
    out.fn \in {"DockerScanner.scan", "HomebrewScanner.scan", "getDirectoryItems"} =>
        \A i \in DOMAIN out.items :
            /\ SubSeq(out.items[i].path, 1, 1) = "/"
            /\ \A j \in DOMAIN Split(out.items[i].path) :
                  Split(out.items[i].path)[j] \notin {".", ".."}

(***************************************************************************)
(* utils/backup.ts: cleanOldBackups                                        *)
(***************************************************************************)

\* the directories directly under the backup root when the sweep started
\* that were older than the retention window
OldSessions ==
    {q \in DOMAIN cbStart : /\ IsChild(q, BACKUP_DIR)
                            /\ cbStart[q].kind = "dir"
                            /\ ages[q] > BACKUP_RETENTION_DAYS}

\* what the sweep has removed
Swept == DOMAIN cbStart \ DOMAIN fs

\* C23: cleanOldBackups removes exactly the directories directly under the
\* backup root that are older than the retention window, unless stat or rm
\* failed for one, and nothing else; it returns how many it removed
C23_SweepsOldSessionsOnly ==
    /\ cbPc # "idle" =>
          \A q \in Swept : \E d \in OldSessions : AtOrUnder(q, d)
    /\ cbPc = "done" =>
          /\ \A d \in OldSessions :
                \/ d \in Swept
                \/ Basename(d) \in cbFailed
                \/ BACKUP_DIR \in cbFailed
          /\ cbCleaned = Cardinality(OldSessions \cap Swept)

(***************************************************************************)
(* utils/backup.ts: ensureBackupDir                                        *)
(***************************************************************************)

\* C24: every directory ensureBackupDir returned is a direct child of the
\* backup root, has no colon and no dot in its name, and differs from every
\* directory an earlier call returned
C24_FreshSessionDir ==
    \A i \in DOMAIN ebDirs :
        /\ IsChild(ebDirs[i], BACKUP_DIR)
        /\ ~Includes(Basename(ebDirs[i]), ":")
        /\ ~Includes(Basename(ebDirs[i]), ".")
        /\ ebDirs[i] \in DOMAIN fs /\ fs[ebDirs[i]].kind = "dir"
        /\ \A j \in DOMAIN ebDirs : j < i => ebDirs[j] # ebDirs[i]

(***************************************************************************)
(* commands/clean.ts and commands/uninstall.ts                             *)
(***************************************************************************)

\* the entries of cmLog that are removal steps, and its answered prompts
Removals == {i \in DOMAIN cmLog : cmLog[i].ev \in {"clean", "safeRemove"}}

Confirms == {i \in DOMAIN cmLog : cmLog[i].ev = "confirm"}

\* the command went on from the place of its prompt
PassedPrompt ==
    \/ cmPc = "removing"
    \/ /\ cmPc = "done"
       /\ cmSelected # <<>>
       /\ cmCmd = "uninstall" => ~cmOpts.dryRun
       /\ \A j \in Confirms : cmLog[j].ok

RiskyResults == {i \in DOMAIN cmResults : cmResults[i].category.safetyLevel = "risky"}

\* C28: unless unsafe is set, no scanner's clean is invoked for a risky
\* category or with an item of a risky category, with all and with the
\* interactive selection
C28_RiskyNeedsUnsafe ==
    ~cmOpts.unsafe =>
        \A i \in Removals : \A r \in RiskyResults :
            /\ cmLog[i].id # cmResults[r].category.id
            /\ \A k \in DOMAIN cmResults[r].items : cmResults[r].items[k].path \notin cmLog[i].paths

\* cleanCommand without unsafe and without all cleaned a selection made
\* from a scan that had found a risky category with items
C28_Witness ==
    /\ cmCmd = "clean"
    /\ ~cmOpts.unsafe
    /\ ~cmOpts.all
    /\ RiskyResults # {}
    /\ \E i \in Removals : cmLog[i].ev = "clean" /\ cmLog[i].id = "large-files"

(***************************************************************************)
(* utils/paths.ts: isSystemPath beside utils/fs.ts: isProtectedPath        *)
(***************************************************************************)

\* C27: isSystemPath and isProtectedPath return the same answer for every
\* path
C27_SameAnswer ==
    /\ out.fn = "isSystemPath" => out.prot = isProtectedPath(arg)
    /\ out.fn = "isProtectedPath" => out.prot = isSystemPath(arg)

(***************************************************************************)
(* utils/config.ts: what loadConfig returns                                *)
(***************************************************************************)

\* the numeric fields of c are within their bounds, its category lists
\* hold known ids only and every field with a default has a value
ValidConfig(c) ==
    /\ \A k \in DOMAIN DEFAULT_CONFIG : k \in DOMAIN c
    /\ \A k \in NumericFields :
          c[k] >= CONFIG_CONSTRAINTS[k].min /\ c[k] <= CONFIG_CONSTRAINTS[k].max
    /\ \A key \in {"defaultCategories", "excludeCategories"} :
          key \in DOMAIN c => \A i \in DOMAIN c[key] : c[key][i] \in CategoryIds

\* C26: whatever loadConfig returns, after any sequence of loadConfig,
\* saveConfig and clearConfigCache, is a valid config
C26_LoadedConfigValid ==
    cfgOut.fn = "loadConfig" => ValidConfig(cfgOut.result)

(***************************************************************************)
(* utils/backup.ts: backupItem                                             *)
(***************************************************************************)

\* the items backupItem returned true for, by the log
BackedTrue == {biLog[j][2] : j \in {x \in DOMAIN biLog : biLog[x][1] = "backed" /\ biLog[x][3]}}

\* C29: whatever the path of the item, backupItem creates entries only
\* inside the session directory, an item it returned true for is no longer
\* at its path, and an item under home is then in the session at HOME
\* followed by its path from home
C29_BackupStaysInSession ==
    /\ \A q \in DOMAIN fs \ DOMAIN BackupFs : AtOrUnder(q, Session)
    /\ \A i \in BackedTrue :
          \E path \in {biItems[i].path} :
              /\ Lstat(fs, path) = "!ENOENT"
              /\ StartsWith(path, Home \o "/") =>
                    Join(Session, "HOME/" \o Slice(path, Len(Home) + 1)) \in DOMAIN fs

(***************************************************************************)
(* scanners/docker.ts: DockerScanner.clean                                 *)
(***************************************************************************)

\* the resource types the items of the call name
TypesNamed ==
    {t \in DockerTypes :
        \E i \in DOMAIN dkStart.items : dkStart.items[i].path = "docker:" \o DashSpaces(t)}

\* the resource types the call has pruned
TypesPruned == {t \in DockerTypes : dkRes[t] # dkStart.res[t]}

\* C30: clean(items, false) prunes only the resource types its items name,
\* and freedSpace is the size of the items whose resources it pruned
C30_PrunesSelectedOnly ==
    (dkStart # <<>> /\ ~dkStart.dryRun) =>
        /\ TypesPruned \subseteq TypesNamed
        /\ dkOut.freedSpace =
              ItemsSize(SelectSeq(dkStart.items,
                                  LAMBDA it : \E t \in TypesPruned :
                                                 it.path = "docker:" \o DashSpaces(t)))

====
